---- MODULE Spec2Model ----
(***************************************************************************)
(* The semantic-query extension of src/src/include/quack_extension.hpp:    *)
(* the dataset registry (DatasetRegistry), the REGISTER_DATASET scalar     *)
(* function, the query parser, the validator, the SQL compiler and the     *)
(* SEMANTIC_QUERY table function (bind + scan).                            *)
(*                                                                         *)
(* A JSON object is a function from the keys it contains to their values   *)
(* (j.contains(k) is k \in DOMAIN j); a JSON text is [valid, j].           *)
(* An unordered_map is a function from its keys to its values.             *)
(* A call that may throw returns a record with a field threw.              *)
(***************************************************************************)
EXTENDS Integers, Sequences, FiniteSets, TLC

VARIABLES
    dataset_measures_,    \* DatasetRegistry::dataset_measures_
    dataset_dimensions_,  \* DatasetRegistry::dataset_dimensions_
    statement,            \* the statement the connection is executing
    register_result,      \* the string REGISTER_DATASET returned ("" : none)
    request,              \* the arguments of the statement (<<>> : none)
    bind_data,            \* the SemanticQueryData of the call (<<>> : none)
    last_error,           \* what() of the exception the statement raised
    output,               \* the DataChunk of the last scan call (<<>> : none)
    rows_emitted,         \* rows the scan calls of this request produced
    compile_calls,        \* calls of CompileSemanticQueryToSQL by this request
    return_types,         \* the column types SemanticQueryBind returned
    names,                \* the column names SemanticQueryBind returned
    before,               \* history: the registry when the statement began
    registered,           \* history: name -> the document of its latest
                          \* successful REGISTER_DATASET
    writer,               \* a thread inside RegisterDataset: where it is
    reader                \* a thread inside the SemanticQueryData
                          \* constructor: where it is and what it has read

vars == <<dataset_measures_, dataset_dimensions_, statement, register_result,
          request, bind_data, last_error, output, rows_emitted, compile_calls,
          return_types, names, before, registered, writer, reader>>

-----------------------------------------------------------------------------
(* Bounds of the model *)

\* the longest list of names (measures + dimensions + time windows) of a
\* generated query document
MaxSelected == 3

\* the longest values array of a generated filter
MaxValues == 3

\* the filters and time windows together, and the order terms, of a query
MaxClauses == 2

-----------------------------------------------------------------------------
(* Generic helpers *)

EmptyMap == [k \in {} |-> <<>>]

NoFields == [k \in {} |-> <<>>]

\* unordered_map::operator[] used as an lvalue: map[key] = value
Put(map, key, value) ==
    [k \in DOMAIN map \cup {key} |-> IF k = key THEN value ELSE map[k]]

\* unordered_map::operator[] used as an rvalue: a missing key is inserted
\* with a default-constructed (empty) vector
Subscript(map, key) ==
    IF key \in DOMAIN map THEN map ELSE Put(map, key, <<>>)

RECURSIVE Join(_, _)
Join(list, separator) ==
    IF list = <<>> THEN ""
    ELSE IF Len(list) = 1 THEN list[1]
    ELSE list[1] \o separator \o Join(Tail(list), separator)

\* all sequences over S of length at most n
RECURSIVE SeqsUpTo(_, _)
SeqsUpTo(S, n) ==
    IF n = 0 THEN {<<>>}
    ELSE LET shorter == SeqsUpTo(S, n - 1)
         IN  shorter \cup {Append(s, x) : s \in {t \in shorter : Len(t) = n - 1}, x \in S}

Text(j) == [valid |-> TRUE, j |-> j]

InvalidText == [valid |-> FALSE]

Threw(what) == [threw |-> TRUE, what |-> what]

-----------------------------------------------------------------------------
(* The registry *)

\* DatasetRegistry::GetInstance(): the one registry of the process
GetInstance ==
    [dataset_measures_ |-> dataset_measures_,
     dataset_dimensions_ |-> dataset_dimensions_]

\* RegisterDataset appending to the entry the name already has
RegisterDatasetAppending(registry, name, measures, dimensions) ==
    [dataset_measures_ |->
         Put(registry.dataset_measures_, name,
             Subscript(registry.dataset_measures_, name)[name] \o measures),
     dataset_dimensions_ |->
         Put(registry.dataset_dimensions_, name,
             Subscript(registry.dataset_dimensions_, name)[name] \o dimensions)]

\* RegisterDataset taking a definition with no measures and no dimensions
\* for the removal of the dataset
RegisterDatasetErasingEmpty(registry, name, measures, dimensions) ==
    IF measures = <<>> /\ dimensions = <<>>
    THEN [dataset_measures_ |->
              [n \in DOMAIN registry.dataset_measures_ \ {name} |->
                  registry.dataset_measures_[n]],
          dataset_dimensions_ |->
              [n \in DOMAIN registry.dataset_dimensions_ \ {name} |->
                  registry.dataset_dimensions_[n]]]
    ELSE [dataset_measures_ |-> Put(registry.dataset_measures_, name, measures),
          dataset_dimensions_ |-> Put(registry.dataset_dimensions_, name, dimensions)]

\* RegisterDataset storing no entry for an empty list of measures
RegisterDatasetSkippingEmpty(registry, name, measures, dimensions) ==
    [dataset_measures_ |-> IF measures = <<>> THEN registry.dataset_measures_
                           ELSE Put(registry.dataset_measures_, name, measures),
     dataset_dimensions_ |-> Put(registry.dataset_dimensions_, name, dimensions)]

\* RegisterDataset keeping one dataset: the maps are assigned, not the entry
RegisterDatasetAlone(registry, name, measures, dimensions) ==
    [dataset_measures_ |-> Put(EmptyMap, name, measures),
     dataset_dimensions_ |-> Put(EmptyMap, name, dimensions)]

RegisterDataset(registry, name, measures, dimensions) ==
    [dataset_measures_ |-> Put(registry.dataset_measures_, name, measures),
     dataset_dimensions_ |-> Put(registry.dataset_dimensions_, name, dimensions)]

NullPtr == [null |-> TRUE]

GetMeasures(registry, dataset_name) ==
    IF dataset_name \in DOMAIN registry.dataset_measures_
    THEN [null |-> FALSE, value |-> registry.dataset_measures_[dataset_name]]
    ELSE NullPtr

GetDimensions(registry, dataset_name) ==
    IF dataset_name \in DOMAIN registry.dataset_dimensions_
    THEN [null |-> FALSE, value |-> registry.dataset_dimensions_[dataset_name]]
    ELSE NullPtr

\* the inner loops of ValidateQuery and of the compiler: the index of the
\* first element of list named name, 0 when there is none
FirstNamed(list, name) ==
    LET hits == {i \in 1..Len(list) : list[i].name = name}
    IN  IF hits = {} THEN 0 ELSE CHOOSE i \in hits : \A k \in hits : i <= k

\* the first element of wanted that no element of list is named after, 0 when
\* every one is found
FirstUnmatched(list, wanted) ==
    LET misses == {i \in 1..Len(wanted) : FirstNamed(list, wanted[i]) = 0}
    IN  IF misses = {} THEN 0 ELSE CHOOSE i \in misses : \A k \in misses : i <= k

TimeDimensionNames(query) ==
    [i \in 1..Len(query.time_dimensions) |-> query.time_dimensions[i].dimension]

\* the three loops of ValidateQuery: the error of the first name that is not
\* found, "" when all are
MeasureError(measures, query) ==
    LET m == FirstUnmatched(measures, query.measures)
    IN  IF m = 0 THEN ""
        ELSE "Measure '" \o query.measures[m] \o "' not found in dataset '"
             \o query.dataset \o "'"

DimensionError(dimensions, query) ==
    LET d == FirstUnmatched(dimensions, query.dimensions)
    IN  IF d = 0 THEN ""
        ELSE "Dimension '" \o query.dimensions[d] \o "' not found in dataset '"
             \o query.dataset \o "'"

TimeDimensionError(dimensions, query) ==
    LET t == FirstUnmatched(dimensions, TimeDimensionNames(query))
    IN  IF t = 0 THEN ""
        ELSE "Time dimension '" \o query.time_dimensions[t].dimension
             \o "' not found in dataset '" \o query.dataset \o "'"

\* the loops with the dimensions checked before the measures
MemberErrorDimensionsFirst(measures, dimensions, query) ==
    IF DimensionError(dimensions, query) # "" THEN DimensionError(dimensions, query)
    ELSE IF MeasureError(measures, query) # "" THEN MeasureError(measures, query)
    ELSE TimeDimensionError(dimensions, query)

\* the loops in the order of the code, each returning at its first miss
MemberError(measures, dimensions, query) ==
    IF MeasureError(measures, query) # "" THEN MeasureError(measures, query)
    ELSE IF DimensionError(dimensions, query) # "" THEN DimensionError(dimensions, query)
    ELSE TimeDimensionError(dimensions, query)

\* the registry after the two operator[] lookups of ValidateQuery
Subscripted(registry, dataset) ==
    [dataset_measures_ |-> Subscript(registry.dataset_measures_, dataset),
     dataset_dimensions_ |-> Subscript(registry.dataset_dimensions_, dataset)]

\* ValidateQuery without the find: the lookups come first and a missing
\* dataset is one with no measures and no dimensions
ValidateQueryWithoutFind(registry, query) ==
    LET after == Subscripted(registry, query.dataset)
        error == MemberError(after.dataset_measures_[query.dataset],
                             after.dataset_dimensions_[query.dataset], query)
    IN  [ok |-> error = "", error_msg |-> error, registry |-> after]

\* ValidateQuery with the lookups made before the find
ValidateQueryLookupFirst(registry, query) ==
    LET after == Subscripted(registry, query.dataset)
        error == MemberError(after.dataset_measures_[query.dataset],
                             after.dataset_dimensions_[query.dataset], query)
    IN  IF query.dataset \notin DOMAIN registry.dataset_measures_
        THEN [ok |-> FALSE,
              error_msg |-> "Dataset '" \o query.dataset \o "' not found in registry",
              registry |-> after]
        ELSE [ok |-> error = "", error_msg |-> error, registry |-> after]

\* ValidateQuery checking the dimension of every filter as well
ValidateQueryCheckingFilters(registry, query) ==
    IF query.dataset \notin DOMAIN registry.dataset_measures_
    THEN [ok |-> FALSE,
          error_msg |-> "Dataset '" \o query.dataset \o "' not found in registry",
          registry |-> registry]
    ELSE LET after == Subscripted(registry, query.dataset)
             error == MemberError(after.dataset_measures_[query.dataset],
                                  after.dataset_dimensions_[query.dataset], query)
             unknown == {i \in 1..Len(query.filters) :
                            FirstNamed(after.dataset_dimensions_[query.dataset],
                                       query.filters[i].dimension) = 0}
         IN  IF error = "" /\ unknown # {}
             THEN [ok |-> FALSE,
                   error_msg |-> "Filter dimension not found in dataset '"
                                 \o query.dataset \o "'",
                   registry |-> after]
             ELSE [ok |-> error = "", error_msg |-> error, registry |-> after]

\* ValidateQuery looking for the dataset only
ValidateQueryDatasetOnly(registry, query) ==
    IF query.dataset \notin DOMAIN registry.dataset_measures_
    THEN [ok |-> FALSE,
          error_msg |-> "Dataset '" \o query.dataset \o "' not found in registry",
          registry |-> registry]
    ELSE [ok |-> TRUE, error_msg |-> "", registry |-> Subscripted(registry, query.dataset)]

\* [ok, error_msg, registry]: the registry is the one the call leaves behind
ValidateQuery(registry, query) ==
    IF query.dataset \notin DOMAIN registry.dataset_measures_
    THEN [ok |-> FALSE,
          error_msg |-> "Dataset '" \o query.dataset \o "' not found in registry",
          registry |-> registry]
    ELSE LET after == Subscripted(registry, query.dataset)
             error == MemberError(after.dataset_measures_[query.dataset],
                                  after.dataset_dimensions_[query.dataset], query)
         IN  [ok |-> error = "", error_msg |-> error, registry |-> after]

-----------------------------------------------------------------------------
(* The query parser *)

Has(j, key) == key \in DOMAIN j

ParseFilter(filter_json) ==
    [dimension |-> filter_json.dimension,
     operator_ |-> filter_json.operator,
     values |-> filter_json.values]

ParseTimeDimension(time_dim_json) ==
    [dimension |-> time_dim_json.dimension,
     granularity |-> IF Has(time_dim_json, "granularity") THEN time_dim_json.granularity ELSE "",
     date_range |-> IF Has(time_dim_json, "date_range") THEN time_dim_json.date_range ELSE <<>>]

\* an order term read with desc true when the document leaves it out
ParseOrderDescending(order_json) ==
    [id |-> order_json.id,
     desc |-> IF Has(order_json, "desc") THEN order_json.desc ELSE TRUE]

ParseOrder(order_json) ==
    [id |-> order_json.id,
     desc |-> IF Has(order_json, "desc") THEN order_json.desc ELSE FALSE]

ParseSemanticQuery(json_str) ==
    IF ~json_str.valid
    THEN Threw("Invalid JSON in semantic query: parse error")
    ELSE LET j == json_str.j
         IN  [threw |-> FALSE,
              query |->
                [dataset |-> IF Has(j, "dataset") THEN j.dataset ELSE "",
                 measures |-> IF Has(j, "measures") THEN j.measures ELSE <<>>,
                 dimensions |-> IF Has(j, "dimensions") THEN j.dimensions ELSE <<>>,
                 filters |-> IF Has(j, "filters")
                             THEN [i \in 1..Len(j.filters) |-> ParseFilter(j.filters[i])]
                             ELSE <<>>,
                 time_dimensions |->
                     IF Has(j, "time_dimensions")
                     THEN [i \in 1..Len(j.time_dimensions) |->
                              ParseTimeDimension(j.time_dimensions[i])]
                     ELSE <<>>,
                 order |-> IF Has(j, "order")
                           THEN [i \in 1..Len(j.order) |-> ParseOrder(j.order[i])]
                           ELSE <<>>,
                 limit |-> IF Has(j, "limit") THEN j.limit ELSE -1,
                 time_zone |-> IF Has(j, "time_zone") THEN j.time_zone ELSE ""]]

-----------------------------------------------------------------------------
(* The SQL compiler *)

RECURSIVE MeasureItems(_, _)
MeasureItems(measures, wanted) ==
    IF wanted = <<>> THEN <<>>
    ELSE LET i == FirstNamed(measures, Head(wanted))
         IN  (IF i = 0 THEN <<>>
              ELSE <<measures[i].sql_expression \o " AS " \o measures[i].name>>)
             \o MeasureItems(measures, Tail(wanted))

RECURSIVE DimensionItems(_, _)
DimensionItems(dimensions, wanted) ==
    IF wanted = <<>> THEN <<>>
    ELSE LET i == FirstNamed(dimensions, Head(wanted))
         IN  (IF i = 0 THEN <<>>
              ELSE <<dimensions[i].sql_expression \o " AS " \o dimensions[i].name>>)
             \o DimensionItems(dimensions, Tail(wanted))

\* the expression truncated for every granularity that is not empty
TimeExprAnyGranularity(dimension, time_dim) ==
    IF time_dim.granularity # ""
    THEN "DATE_TRUNC('" \o time_dim.granularity \o "', " \o dimension.sql_expression \o ")"
    ELSE dimension.sql_expression

TimeExpr(dimension, time_dim) ==
    IF time_dim.granularity # ""
    THEN IF time_dim.granularity = "day"
         THEN "DATE_TRUNC('day', " \o dimension.sql_expression \o ")"
         ELSE IF time_dim.granularity = "month"
         THEN "DATE_TRUNC('month', " \o dimension.sql_expression \o ")"
         ELSE IF time_dim.granularity = "year"
         THEN "DATE_TRUNC('year', " \o dimension.sql_expression \o ")"
         ELSE dimension.sql_expression
    ELSE dimension.sql_expression

RECURSIVE TimeDimensionItems(_, _)
TimeDimensionItems(dimensions, time_dimensions) ==
    IF time_dimensions = <<>> THEN <<>>
    ELSE LET time_dim == Head(time_dimensions)
             i == FirstNamed(dimensions, time_dim.dimension)
         IN  (IF i = 0 THEN <<>>
              ELSE <<TimeExpr(dimensions[i], time_dim) \o " AS " \o time_dim.dimension>>)
             \o TimeDimensionItems(dimensions, Tail(time_dimensions))

\* the select list with the dimensions ahead of the measures
SelectListDimensionsFirst(measures, dimensions, query) ==
    DimensionItems(dimensions, query.dimensions)
    \o MeasureItems(measures, query.measures)
    \o TimeDimensionItems(dimensions, query.time_dimensions)

SelectList(measures, dimensions, query) ==
    MeasureItems(measures, query.measures)
    \o DimensionItems(dimensions, query.dimensions)
    \o TimeDimensionItems(dimensions, query.time_dimensions)

QuotedValues(values) == [i \in 1..Len(values) |-> "'" \o values[i] \o "'"]

\* the conditions of a filter that compares with its first value only
FilterConditionsFirstValue(filter) ==
    IF filter.operator_ = "equals" /\ Len(filter.values) >= 1
    THEN <<filter.dimension \o " = '" \o filter.values[1] \o "'">>
    ELSE IF filter.operator_ = "not_equals" /\ Len(filter.values) >= 1
    THEN <<filter.dimension \o " != '" \o filter.values[1] \o "'">>
    ELSE <<>>

\* text with every single quote doubled
RECURSIVE Escaped(_)
Escaped(text) ==
    IF text = "" THEN ""
    ELSE (IF SubSeq(text, 1, 1) = "'" THEN "''" ELSE SubSeq(text, 1, 1))
         \o Escaped(SubSeq(text, 2, Len(text)))

\* the conditions of a filter whose values are escaped before they are quoted
FilterConditionsEscaped(filter) ==
    LET quoted == [i \in 1..Len(filter.values) |-> "'" \o Escaped(filter.values[i]) \o "'"]
    IN  IF filter.operator_ = "equals" /\ Len(filter.values) = 1
        THEN <<filter.dimension \o " = " \o quoted[1]>>
        ELSE IF filter.operator_ = "equals" /\ Len(filter.values) > 1
        THEN <<filter.dimension \o " IN (" \o Join(quoted, ", ") \o ")">>
        ELSE IF filter.operator_ = "not_equals" /\ Len(filter.values) = 1
        THEN <<filter.dimension \o " != " \o quoted[1]>>
        ELSE IF filter.operator_ = "not_equals" /\ Len(filter.values) > 1
        THEN <<filter.dimension \o " NOT IN (" \o Join(quoted, ", ") \o ")">>
        ELSE <<>>

\* the conditions of a filter whose operator contains is compiled to LIKE
FilterConditionsLike(filter) ==
    IF filter.operator_ = "equals" /\ Len(filter.values) = 1
    THEN <<filter.dimension \o " = '" \o filter.values[1] \o "'">>
    ELSE IF filter.operator_ = "equals" /\ Len(filter.values) > 1
    THEN <<filter.dimension \o " IN (" \o Join(QuotedValues(filter.values), ", ") \o ")">>
    ELSE IF filter.operator_ = "not_equals" /\ Len(filter.values) = 1
    THEN <<filter.dimension \o " != '" \o filter.values[1] \o "'">>
    ELSE IF filter.operator_ = "not_equals" /\ Len(filter.values) > 1
    THEN <<filter.dimension \o " NOT IN (" \o Join(QuotedValues(filter.values), ", ") \o ")">>
    ELSE IF filter.operator_ = "contains" /\ Len(filter.values) >= 1
    THEN <<filter.dimension \o " LIKE '%" \o filter.values[1] \o "%'">>
    ELSE <<>>

\* the conditions one filter adds to where_conditions
FilterConditions(filter) ==
    IF filter.operator_ = "equals"
    THEN IF Len(filter.values) = 1
         THEN <<filter.dimension \o " = '" \o filter.values[1] \o "'">>
         ELSE IF Len(filter.values) > 1
         THEN <<filter.dimension \o " IN (" \o Join(QuotedValues(filter.values), ", ") \o ")">>
         ELSE <<>>
    ELSE IF filter.operator_ = "not_equals"
    THEN IF Len(filter.values) = 1
         THEN <<filter.dimension \o " != '" \o filter.values[1] \o "'">>
         ELSE IF Len(filter.values) > 1
         THEN <<filter.dimension \o " NOT IN (" \o Join(QuotedValues(filter.values), ", ") \o ")">>
         ELSE <<>>
    ELSE <<>>

\* the conditions of a time window that bounds by whatever entries its
\* date_range has
DateRangeConditionsAnyLength(time_dim) ==
    (IF Len(time_dim.date_range) >= 1
     THEN <<time_dim.dimension \o " >= '" \o time_dim.date_range[1] \o "'">>
     ELSE <<>>)
    \o
    (IF Len(time_dim.date_range) >= 2
     THEN <<time_dim.dimension \o " <= '" \o time_dim.date_range[2] \o "'">>
     ELSE <<>>)

\* the conditions one time window adds to where_conditions
DateRangeConditions(time_dim) ==
    IF Len(time_dim.date_range) = 2
    THEN <<time_dim.dimension \o " >= '" \o time_dim.date_range[1] \o "'",
           time_dim.dimension \o " <= '" \o time_dim.date_range[2] \o "'">>
    ELSE <<>>

RECURSIVE FilterWhere(_)
FilterWhere(filters) ==
    IF filters = <<>> THEN <<>>
    ELSE FilterConditions(Head(filters)) \o FilterWhere(Tail(filters))

RECURSIVE DateRangeWhere(_)
DateRangeWhere(time_dimensions) ==
    IF time_dimensions = <<>> THEN <<>>
    ELSE DateRangeConditions(Head(time_dimensions)) \o DateRangeWhere(Tail(time_dimensions))

WhereConditions(query) ==
    FilterWhere(query.filters) \o DateRangeWhere(query.time_dimensions)

WhereClause(query) ==
    IF WhereConditions(query) # <<>>
    THEN " WHERE " \o Join(WhereConditions(query), " AND ")
    ELSE ""

GroupByList(query) == query.dimensions \o TimeDimensionNames(query)

\* the GROUP BY clause emitted whether or not the query has measures
GroupByClauseWithoutMeasures(query) ==
    IF GroupByList(query) # <<>>
    THEN " GROUP BY " \o Join(GroupByList(query), ", ")
    ELSE ""

\* the GROUP BY clause emitted for every query with measures, its list
\* empty or not
GroupByClauseEmptyList(query) ==
    IF query.measures # <<>>
    THEN " GROUP BY " \o Join(GroupByList(query), ", ")
    ELSE ""

GroupByClause(query) ==
    IF query.measures # <<>> /\ GroupByList(query) # <<>>
    THEN " GROUP BY " \o Join(GroupByList(query), ", ")
    ELSE ""

OrderList(query) ==
    [i \in 1..Len(query.order) |->
        IF query.order[i].desc THEN query.order[i].id \o " DESC" ELSE query.order[i].id]

OrderByClause(query) ==
    IF query.order # <<>>
    THEN " ORDER BY " \o Join(OrderList(query), ", ")
    ELSE ""

\* the LIMIT clause emitted for every limit that is not negative
LimitClauseNotNegative(query) ==
    IF query.limit >= 0 THEN " LIMIT " \o ToString(query.limit) ELSE ""

LimitClause(query) ==
    IF query.limit > 0 THEN " LIMIT " \o ToString(query.limit) ELSE ""

\* the text of a compiler that applies the time zone of the query
SqlTextInTimeZone(select_list, query) ==
    "SELECT " \o Join(select_list, ", ")
    \o " FROM " \o query.dataset
    \o WhereClause(query)
    \o GroupByClause(query)
    \o OrderByClause(query)
    \o LimitClause(query)
    \o (IF query.time_zone # "" THEN " /* " \o query.time_zone \o " */" ELSE "")

\* the text with the ORDER BY clause put before the GROUP BY clause
SqlTextOrderBeforeGroup(select_list, query) ==
    "SELECT " \o Join(select_list, ", ")
    \o " FROM " \o query.dataset
    \o WhereClause(query)
    \o OrderByClause(query)
    \o GroupByClause(query)
    \o LimitClause(query)

\* the text built from a non-empty select_list
SqlText(select_list, query) ==
    "SELECT " \o Join(select_list, ", ")
    \o " FROM " \o query.dataset
    \o WhereClause(query)
    \o GroupByClause(query)
    \o OrderByClause(query)
    \o LimitClause(query)

DatasetNotFound(registry, query) ==
    [threw |-> TRUE,
     what |-> "Dataset '" \o query.dataset \o "' not found in registry",
     registry |-> registry]

\* the compiler without the test of an empty select_list
CompileWithoutEmptyTest(registry, query) ==
    LET measures == GetMeasures(registry, query.dataset)
        dimensions == GetDimensions(registry, query.dataset)
    IN  IF measures.null \/ dimensions.null
        THEN DatasetNotFound(registry, query)
        ELSE [threw |-> FALSE,
              registry |-> registry,
              sql |-> SqlText(SelectList(measures.value, dimensions.value, query), query)]

\* the compiler moving the measures out of the registry instead of reading
\* them through the pointer
CompileMovingMeasures(registry, query) ==
    LET measures == GetMeasures(registry, query.dataset)
        dimensions == GetDimensions(registry, query.dataset)
        left == [registry EXCEPT !.dataset_measures_ =
                    [n \in DOMAIN @ |-> IF n = query.dataset THEN <<>> ELSE @[n]]]
    IN  IF measures.null \/ dimensions.null
        THEN DatasetNotFound(registry, query)
        ELSE LET select_list == SelectList(measures.value, dimensions.value, query)
             IN  IF select_list = <<>>
                 THEN [threw |-> TRUE,
                       what |-> "No valid measures or dimensions specified",
                       registry |-> left]
                 ELSE [threw |-> FALSE,
                       registry |-> left,
                       sql |-> SqlText(select_list, query)]

\* [threw, what | sql, registry]: the registry is the one the call leaves
\* behind (GetMeasures and GetDimensions look up with find and change nothing)
CompileSemanticQueryToSQL(registry, query) ==
    LET measures == GetMeasures(registry, query.dataset)
        dimensions == GetDimensions(registry, query.dataset)
    IN  IF measures.null \/ dimensions.null
        THEN DatasetNotFound(registry, query)
        ELSE LET select_list == SelectList(measures.value, dimensions.value, query)
             IN  IF select_list = <<>>
                 THEN [threw |-> TRUE,
                       what |-> "No valid measures or dimensions specified",
                       registry |-> registry]
                 ELSE [threw |-> FALSE,
                       registry |-> registry,
                       sql |-> SqlText(select_list, query)]

-----------------------------------------------------------------------------
(* The SEMANTIC_QUERY table function *)

NoData == <<>>

\* the end of the constructor, with what CompileSemanticQueryToSQL returned
\* or threw
Constructed(json, explain, compiled) ==
    IF compiled.threw
    THEN [threw |-> TRUE, what |-> compiled.what,
          registry |-> compiled.registry, compile_calls |-> 1]
    ELSE [threw |-> FALSE,
          data |-> [query_json |-> json,
                    compiled_sql |-> compiled.sql,
                    explained |-> explain,
                    finished |-> FALSE],
          registry |-> compiled.registry,
          compile_calls |-> 1]

\* the constructor of SemanticQueryData: [threw, what | data, registry,
\* compile_calls], the registry being the one the constructor leaves behind
SemanticQueryData(registry, json, explain) ==
    LET parsed == ParseSemanticQuery(json)
    IN  IF parsed.threw
        THEN [threw |-> TRUE, what |-> parsed.what, registry |-> registry, compile_calls |-> 0]
        ELSE LET validated == ValidateQuery(registry, parsed.query)
             IN  IF ~validated.ok
                 THEN [threw |-> TRUE,
                       what |-> "Semantic query validation failed: " \o validated.error_msg,
                       registry |-> validated.registry,
                       compile_calls |-> 0]
                 ELSE Constructed(json, explain,
                                  CompileSemanticQueryToSQL(validated.registry, parsed.query))

\* the explain flag SemanticQueryBind reads from its inputs
ExplainMode(inputs) ==
    IF Len(inputs) > 1
    THEN IF inputs[2].type = "BOOLEAN" THEN inputs[2].value ELSE FALSE
    ELSE FALSE

\* the schema SemanticQueryBind binds once the bind data is made
BindSchema(made, explain_mode) ==
    IF made.threw
    THEN made @@ [return_types |-> <<>>, names |-> <<>>]
    ELSE IF explain_mode
    THEN made @@ [return_types |-> <<"VARCHAR">>, names |-> <<"compiled_sql">>]
    ELSE made @@ [return_types |-> <<"VARCHAR", "BIGINT", "DATE">>,
                  names |-> <<"result", "count", "date">>]

\* the result of the constructor, with the schema bound on success
SemanticQueryBind(registry, inputs) ==
    BindSchema(SemanticQueryData(registry, inputs[1].value, ExplainMode(inputs)),
               ExplainMode(inputs))

\* the scan call without the finished flag: every call emits the row
SemanticQueryFunctionUnfinished(data) ==
    IF data.explained
    THEN [data |-> data,
          output |-> [cardinality |-> 1, row |-> <<data.compiled_sql>>]]
    ELSE [data |-> data,
          output |-> [cardinality |-> 1,
                      row |-> <<"Compiled SQL: " \o data.compiled_sql, "1", "2025-01-01">>]]

\* one scan call: [data, output], the bind data it leaves and the chunk
SemanticQueryFunction(data) ==
    IF data.finished
    THEN [data |-> data, output |-> [cardinality |-> 0, row |-> <<>>]]
    ELSE IF data.explained
    THEN [data |-> [data EXCEPT !.finished = TRUE],
          output |-> [cardinality |-> 1, row |-> <<data.compiled_sql>>]]
    ELSE [data |-> [data EXCEPT !.finished = TRUE],
          output |-> [cardinality |-> 1,
                      row |-> <<"Compiled SQL: " \o data.compiled_sql, "1", "2025-01-01">>]]

-----------------------------------------------------------------------------
(* The REGISTER_DATASET scalar function *)

ParseMeasure(measure_json) ==
    [name |-> measure_json.name,
     aggregation_type |-> IF Has(measure_json, "type") THEN measure_json.type ELSE "sum",
     sql_expression |-> measure_json.sql]

ParseDimension(dimension_json, data_type) ==
    [name |-> dimension_json.name,
     sql_expression |-> dimension_json.sql,
     data_type |-> data_type]

ParseMeasures(dataset_j) ==
    IF Has(dataset_j, "measures")
    THEN [i \in 1..Len(dataset_j.measures) |-> ParseMeasure(dataset_j.measures[i])]
    ELSE <<>>

\* the dimension list with the time dimensions put before the dimensions
ParseDimensionsTimeFirst(dataset_j) ==
    (IF Has(dataset_j, "time_dimensions")
     THEN [i \in 1..Len(dataset_j.time_dimensions) |->
              ParseDimension(dataset_j.time_dimensions[i], "DATE")]
     ELSE <<>>)
    \o
    (IF Has(dataset_j, "dimensions")
     THEN [i \in 1..Len(dataset_j.dimensions) |->
              ParseDimension(dataset_j.dimensions[i], "VARCHAR")]
     ELSE <<>>)

ParseDimensions(dataset_j) ==
    (IF Has(dataset_j, "dimensions")
     THEN [i \in 1..Len(dataset_j.dimensions) |->
              ParseDimension(dataset_j.dimensions[i], "VARCHAR")]
     ELSE <<>>)
    \o
    (IF Has(dataset_j, "time_dimensions")
     THEN [i \in 1..Len(dataset_j.time_dimensions) |->
              ParseDimension(dataset_j.time_dimensions[i], "DATE")]
     ELSE <<>>)

\* the values of the document that are not JSON strings, by their path
\* <<list, index, field>>; the document keeps the text of such a value
NotString(dataset_json) ==
    IF Has(dataset_json, "not_string") THEN dataset_json.not_string ELSE {}

\* the values the three loops read with get<string>()
StringsRead(dataset_j) ==
    UNION {UNION {{<<list, i, field>> :
                      field \in ({"name", "sql"}
                                 \cup (IF list = "measures" THEN {"type"} ELSE {}))
                                \cap DOMAIN dataset_j[list][i]} :
                  i \in 1..Len(dataset_j[list])} :
           list \in {"measures", "dimensions", "time_dimensions"} \cap DOMAIN dataset_j}

\* the get<string>() calls that throw a type_error
TypeErrors(dataset_json) == StringsRead(dataset_json.j) \cap NotString(dataset_json)

\* the function calling RegisterDataset before it parses the lists
RegisterDatasetScalarFunRegisteringFirst(registry, dataset_name, dataset_json) ==
    IF ~dataset_json.valid
    THEN [threw |-> TRUE, what |-> "Failed to register dataset: parse error",
          registry |-> registry]
    ELSE IF TypeErrors(dataset_json) # {}
    THEN [threw |-> TRUE,
          what |-> "Failed to register dataset: type must be string, but is number",
          registry |-> RegisterDataset(registry, dataset_name, <<>>, <<>>)]
    ELSE [threw |-> FALSE,
          value |-> "Dataset '" \o dataset_name \o "' registered successfully",
          registry |-> RegisterDataset(registry, dataset_name,
                                       ParseMeasures(dataset_json.j),
                                       ParseDimensions(dataset_json.j))]

\* [threw, what | value, registry]
RegisterDatasetScalarFun(registry, dataset_name, dataset_json) ==
    IF ~dataset_json.valid
    THEN [threw |-> TRUE, what |-> "Failed to register dataset: parse error",
          registry |-> registry]
    ELSE IF TypeErrors(dataset_json) # {}
    THEN [threw |-> TRUE,
          what |-> "Failed to register dataset: type must be string, but is number",
          registry |-> registry]
    ELSE [threw |-> FALSE,
          value |-> "Dataset '" \o dataset_name \o "' registered successfully",
          registry |-> RegisterDataset(registry, dataset_name,
                                       ParseMeasures(dataset_json.j),
                                       ParseDimensions(dataset_json.j))]

-----------------------------------------------------------------------------
(* The inputs: dataset names, dataset documents and query documents *)

DatasetNames == {"orders_ds", ""}

\* the registration of test 1
OrdersDocument ==
    Text([measures |-> <<[name |-> "total_revenue", type |-> "sum", sql |-> "SUM(order_amount)"],
                         [name |-> "order_count", type |-> "count", sql |-> "COUNT(*)"]>>,
          dimensions |-> <<[name |-> "customer_id", sql |-> "customer_id"],
                           [name |-> "region", sql |-> "region"]>>,
          time_dimensions |-> <<[name |-> "order_date", sql |-> "order_date"]>>])

\* another definition of the same names: fewer members, other expressions
RevisedDocument ==
    Text([measures |-> <<[name |-> "total_revenue", sql |-> "SUM(net_amount)"]>>,
          dimensions |-> <<[name |-> "customer_id", sql |-> "c.id"]>>])

\* a document with no measures, dimensions or time dimensions
EmptyDocument == Text(NoFields)

\* the registration of test 1 with a number for the expression of its
\* second dimension: the measures and a dimension are parsed before it
MistypedDocument ==
    [valid |-> TRUE,
     j |-> [OrdersDocument.j EXCEPT !.dimensions[2].sql = "42"],
     not_string |-> {<<"dimensions", 2, "sql">>}]

\* a definition whose only measure has a number for its type
MistypedMeasureDocument ==
    [valid |-> TRUE,
     j |-> [measures |-> <<[name |-> "total_revenue", type |-> "1",
                            sql |-> "SUM(net_amount)"]>>],
     not_string |-> {<<"measures", 1, "type">>}]

DatasetDocuments ==
    {OrdersDocument, RevisedDocument, EmptyDocument, InvalidText,
     MistypedDocument, MistypedMeasureDocument}

Field(key, value) == key :> value

\* a field that is left out of the document when its list is empty
Optional(key, list) == IF list = <<>> THEN NoFields ELSE Field(key, list)

MeasureNames == {"total_revenue", "order_count", "invalid_measure"}

DimensionNames == {"customer_id", "order_date", "invalid_dimension"}

TimeWindows ==
    {[dimension |-> "order_date", granularity |-> "month"],
     [dimension |-> "invalid_time_dim"]}

Granularities == {"", "day", "month", "year", "week", "DAY"}

DateRanges == SeqsUpTo({"2025-01-01"}, MaxValues)

FilterValues == SeqsUpTo({"123", "456"}, MaxValues) \cup {<<"999">>}

FilterOperators == {"equals", "not_equals", "contains"}

\* the clauses after the selection, all present
LaterClauses ==
    [filters |-> <<[dimension |-> "customer_id", operator |-> "equals", values |-> <<"123">>]>>,
     order |-> <<[id |-> "total_revenue", desc |-> TRUE]>>,
     limit |-> 10,
     time_zone |-> "UTC"]

\* queries on orders_ds that select up to MaxSelected names in all
SelectionDocuments ==
    UNION {UNION {{Field("dataset", "orders_ds") @@ Optional("measures", m)
                       @@ Optional("dimensions", d) @@ Optional("time_dimensions", t) :
                       t \in SeqsUpTo(TimeWindows, MaxSelected - Len(m) - Len(d))} :
                  d \in SeqsUpTo(DimensionNames, MaxSelected - Len(m))} :
           m \in SeqsUpTo(MeasureNames, MaxSelected)}

\* queries with and without a dataset, a selection and the later clauses
DatasetQueryDocuments ==
    {dataset @@ selection @@ rest :
        dataset \in {NoFields} \cup {Field("dataset", n) : n \in {"", "orders_ds", "nonexistent_ds"}},
        selection \in {NoFields,
                       [measures |-> <<>>, dimensions |-> <<>>, time_dimensions |-> <<>>],
                       [measures |-> <<"total_revenue">>],
                       [dimensions |-> <<"customer_id">>]},
        rest \in {NoFields, LaterClauses}}

\* queries with one time window of every granularity and date range
TimeWindowDocuments ==
    {Field("dataset", "orders_ds") @@ selection
        @@ Field("time_dimensions",
                 <<Field("dimension", "order_date") @@ granularity @@ date_range>>) :
        selection \in {NoFields, [measures |-> <<"total_revenue">>]},
        granularity \in {NoFields} \cup {Field("granularity", g) : g \in Granularities},
        date_range \in {NoFields} \cup {Field("date_range", r) : r \in DateRanges}}

\* queries with one filter of every operator and number of values
FilterDocuments ==
    {[dataset |-> "orders_ds", measures |-> <<"total_revenue">>,
      filters |-> <<[dimension |-> "customer_id", operator |-> op, values |-> v]>>] :
        op \in FilterOperators, v \in FilterValues}

\* the filters and time windows of the queries that have several of them
ClauseFilters ==
    {[dimension |-> "customer_id", operator |-> "equals", values |-> <<"123">>],
     [dimension |-> "customer_id", operator |-> "contains", values |-> <<"123">>],
     [dimension |-> "region", operator |-> "not_equals", values |-> <<"123", "456">>]}

ClauseWindows ==
    {[dimension |-> "order_date", granularity |-> "day",
      date_range |-> <<"2025-01-01", "2025-01-31">>],
     [dimension |-> "order_date", date_range |-> <<"2025-01-01">>],
     [dimension |-> "order_date", granularity |-> "month"]}

\* queries with up to MaxClauses filters and time windows in all
WhereDocuments ==
    UNION {UNION {{selection @@ Optional("filters", f) @@ Optional("time_dimensions", w) :
                      selection \in {[dataset |-> "orders_ds", measures |-> <<"total_revenue">>],
                                     [dataset |-> "orders_ds", dimensions |-> <<"customer_id">>]}} :
                  w \in SeqsUpTo(ClauseWindows, MaxClauses - Len(f))} :
           f \in SeqsUpTo(ClauseFilters, MaxClauses)}

OrderTerms ==
    {[id |-> "total_revenue", desc |-> TRUE],
     [id |-> "customer_id", desc |-> FALSE],
     [id |-> "order_count"]}

Limits == {0, -1, -5, 1, 10}

TimeZones == {"", "UTC", "America/New_York"}

\* queries with up to MaxClauses order terms, with a limit, with a time zone
OrderDocuments ==
    {[dataset |-> "orders_ds", measures |-> <<"total_revenue">>,
      dimensions |-> <<"customer_id">>] @@ Optional("order", o) @@ limit @@ time_zone :
        o \in SeqsUpTo(OrderTerms, MaxClauses),
        limit \in {NoFields, Field("limit", 10)},
        time_zone \in {NoFields, Field("time_zone", "UTC")}}

LimitDocuments ==
    {selection @@ Field("limit", n) :
        selection \in {[dataset |-> "orders_ds", measures |-> <<"total_revenue">>],
                       [dataset |-> "orders_ds", measures |-> <<"total_revenue">>,
                        dimensions |-> <<"customer_id">>,
                        order |-> <<[id |-> "total_revenue", desc |-> TRUE]>>]},
        n \in Limits}

TimeZoneDocuments ==
    {selection @@ time_zone :
        selection \in {[dataset |-> "orders_ds", measures |-> <<"total_revenue">>],
                       [dataset |-> "orders_ds", measures |-> <<"invalid_measure">>],
                       [dataset |-> "orders_ds", measures |-> <<"total_revenue">>,
                        time_dimensions |-> <<[dimension |-> "order_date",
                                               granularity |-> "day",
                                               date_range |-> <<"2025-01-01", "2025-01-31">>]>>]},
        time_zone \in {NoFields} \cup {Field("time_zone", z) : z \in TimeZones}}

\* queries whose filter values and date range entries have single quotes
QuoteDocuments ==
    {[dataset |-> "orders_ds", measures |-> <<"total_revenue">>,
      filters |-> <<[dimension |-> "customer_id", operator |-> "equals",
                     values |-> <<"O'Brien">>]>>],
     [dataset |-> "orders_ds", measures |-> <<"total_revenue">>,
      filters |-> <<[dimension |-> "customer_id", operator |-> "not_equals",
                     values |-> <<"123", "x') OR ('1'='1">>]>>,
      time_dimensions |-> <<[dimension |-> "order_date",
                             date_range |-> <<"2025-01-01", "2025-12-31' OR '1'='1">>]>>]}

\* the complex query of test 7: every field of a query document
ComplexDocument ==
    [dataset |-> "orders_ds",
     measures |-> <<"total_revenue", "order_count">>,
     dimensions |-> <<"customer_id">>,
     time_dimensions |-> <<[dimension |-> "order_date", granularity |-> "month",
                            date_range |-> <<"2025-01-01", "2025-12-31">>]>>,
     filters |-> <<[dimension |-> "customer_id", operator |-> "not_equals",
                    values |-> <<"999">>]>>,
     order |-> <<[id |-> "order_date", desc |-> FALSE],
                 [id |-> "total_revenue", desc |-> TRUE]>>,
     limit |-> 100,
     time_zone |-> "UTC"]

QueryDocuments ==
    SelectionDocuments \cup DatasetQueryDocuments \cup TimeWindowDocuments \cup FilterDocuments
    \cup WhereDocuments \cup OrderDocuments \cup LimitDocuments \cup TimeZoneDocuments
    \cup QuoteDocuments \cup {ComplexDocument}

QueryTexts == {Text(j) : j \in QueryDocuments} \cup {InvalidText}

Varchar(value) == [type |-> "VARCHAR", value |-> value]

Boolean(value) == [type |-> "BOOLEAN", value |-> value]

\* the argument lists of SEMANTIC_QUERY: the text, then the explain flag
QueryInputs ==
    {<<Varchar(text)>> : text \in QueryTexts}
    \cup {<<Varchar(text), Boolean(TRUE)>> : text \in QueryTexts}

-----------------------------------------------------------------------------
(* The statements of one connection, executed one after the other *)

Init ==
    /\ dataset_measures_ = EmptyMap
    /\ dataset_dimensions_ = EmptyMap
    /\ statement = "idle"
    /\ register_result = ""
    /\ request = <<>>
    /\ bind_data = NoData
    /\ last_error = ""
    /\ output = <<>>
    /\ rows_emitted = 0
    /\ compile_calls = 0
    /\ return_types = <<>>
    /\ names = <<>>
    /\ before = GetInstance
    /\ registered = EmptyMap
    /\ writer = [pc |-> "idle"]
    /\ reader = [pc |-> "idle", seen |-> <<>>, select_list |-> <<>>]

\* SELECT REGISTER_DATASET(dataset_name, dataset_json)
RegisterStatement(dataset_name, dataset_json) ==
    /\ statement = "idle"
    /\ LET called == RegisterDatasetScalarFun(GetInstance, dataset_name, dataset_json)
       IN  /\ dataset_measures_' = called.registry.dataset_measures_
           /\ dataset_dimensions_' = called.registry.dataset_dimensions_
           /\ register_result' = IF called.threw THEN "" ELSE called.value
           /\ last_error' = IF called.threw THEN called.what ELSE ""
           /\ registered' = IF called.threw THEN registered
                            ELSE Put(registered, dataset_name, dataset_json)
    /\ statement' = "register"
    /\ request' = <<Varchar(dataset_name), Varchar(dataset_json)>>
    /\ before' = GetInstance
    /\ UNCHANGED <<bind_data, output, rows_emitted, compile_calls, return_types, names,
                   writer, reader>>

\* what the bind phase leaves, bound being the result of SemanticQueryBind
Bound(bound) ==
    /\ dataset_measures_' = bound.registry.dataset_measures_
    /\ dataset_dimensions_' = bound.registry.dataset_dimensions_
    /\ bind_data' = IF bound.threw THEN NoData ELSE bound.data
    /\ last_error' = IF bound.threw THEN bound.what ELSE ""
    /\ compile_calls' = bound.compile_calls
    /\ return_types' = bound.return_types
    /\ names' = bound.names

\* SELECT * FROM SEMANTIC_QUERY(inputs): the bind phase
BindStatement(inputs) ==
    /\ statement = "idle"
    /\ Bound(SemanticQueryBind(GetInstance, inputs))
    /\ statement' = "semantic_query"
    /\ request' = inputs
    /\ before' = GetInstance
    /\ UNCHANGED <<register_result, output, rows_emitted, registered, writer, reader>>

\* the scan phase: one call of SemanticQueryFunction on the bind data
Scan ==
    /\ statement = "semantic_query"
    /\ bind_data # NoData
    /\ LET called == SemanticQueryFunction(bind_data)
       IN  /\ bind_data' = called.data
           /\ output' = called.output
           /\ rows_emitted' = rows_emitted + called.output.cardinality
    /\ UNCHANGED <<dataset_measures_, dataset_dimensions_, statement, register_result,
                   request, last_error, compile_calls, return_types, names,
                   before, registered, writer, reader>>

\* the statement ends: its result or error has gone to the client
EndStatement ==
    /\ statement # "idle"
    /\ statement' = "idle"
    /\ register_result' = ""
    /\ request' = <<>>
    /\ bind_data' = NoData
    /\ last_error' = ""
    /\ output' = <<>>
    /\ rows_emitted' = 0
    /\ compile_calls' = 0
    /\ return_types' = <<>>
    /\ names' = <<>>
    /\ before' = GetInstance
    /\ UNCHANGED <<dataset_measures_, dataset_dimensions_, registered, writer, reader>>

Next ==
    \/ \E dataset_name \in DatasetNames, dataset_json \in DatasetDocuments :
           RegisterStatement(dataset_name, dataset_json)
    \/ \E inputs \in QueryInputs : BindStatement(inputs)
    \/ Scan
    \/ EndStatement

Spec == Init /\ [][Next]_vars

-----------------------------------------------------------------------------
(* Two threads on the registry: one inside RegisterDataset, one inside the   *)
(* constructor of SemanticQueryData.  The code takes no lock, so the         *)
(* statements of the two interleave; a step is one statement or loop that    *)
(* touches the maps.  The references ValidateQuery takes and the pointers    *)
(* the compiler takes stay on the vectors of the maps, so each loop reads    *)
(* the vector as it is when the loop runs.                                   *)

ValidDatasetDocuments ==
    {d \in DatasetDocuments : ~RegisterDatasetScalarFun(GetInstance, "", d).threw}

\* the queries of the reading thread
ConcurrentQueryTexts ==
    {Text(j) : j \in
        {[dataset |-> n, measures |-> <<"total_revenue">>] : n \in DatasetNames}
        \cup {[dataset |-> "orders_ds", dimensions |-> <<"customer_id">>],
              [dataset |-> "orders_ds", measures |-> <<"order_count">>,
               dimensions |-> <<"customer_id">>],
              [dataset |-> "orders_ds", measures |-> <<"total_revenue">>,
               time_dimensions |-> <<[dimension |-> "order_date", granularity |-> "day"]>>],
              [dataset |-> "orders_ds", measures |-> <<"total_revenue", "order_count">>,
               dimensions |-> <<"customer_id", "order_date">>]}}

ReaderQuery == ParseSemanticQuery(request[1].value).query

ReaderIdle == [pc |-> "idle", seen |-> <<>>, select_list |-> <<>>]

\* RegisterDataset, line 116: dataset_measures_[name] = measures
WriterMeasures(dataset_name, dataset_json) ==
    /\ writer.pc = "idle"
    /\ dataset_measures_' = Put(dataset_measures_, dataset_name, ParseMeasures(dataset_json.j))
    /\ writer' = [pc |-> "dimensions", name |-> dataset_name, json |-> dataset_json]
    /\ UNCHANGED <<dataset_dimensions_, statement, register_result, request, bind_data,
                   last_error, output, rows_emitted, compile_calls, return_types, names,
                   before, registered, reader>>

\* RegisterDataset, line 117: dataset_dimensions_[name] = dimensions
WriterDimensions ==
    /\ writer.pc = "dimensions"
    /\ dataset_dimensions_' = Put(dataset_dimensions_, writer.name,
                                  ParseDimensions(writer.json.j))
    /\ registered' = Put(registered, writer.name, writer.json)
    /\ writer' = [pc |-> "idle"]
    /\ UNCHANGED <<dataset_measures_, statement, register_result, request, bind_data,
                   last_error, output, rows_emitted, compile_calls, return_types, names,
                   before, reader>>

\* the constructor throws: the statement fails with what
ReaderThrows(what) ==
    /\ last_error' = what
    /\ reader' = [reader EXCEPT !.pc = "done"]

\* SemanticQueryBind up to ParseSemanticQuery (line 418)
ReaderParse(inputs) ==
    /\ statement = "idle"
    /\ reader.pc = "idle"
    /\ statement' = "semantic_query"
    /\ request' = inputs
    /\ LET parsed == ParseSemanticQuery(inputs[1].value)
       IN  IF parsed.threw
           THEN ReaderThrows(parsed.what)
           ELSE /\ reader' = [reader EXCEPT !.pc = "find"]
                /\ UNCHANGED last_error
    /\ UNCHANGED <<dataset_measures_, dataset_dimensions_, register_result, bind_data,
                   output, rows_emitted, compile_calls, return_types, names, before,
                   registered, writer>>

\* ValidateQuery, lines 122-125: the find
ReaderFind ==
    /\ reader.pc = "find"
    /\ IF ReaderQuery.dataset \notin DOMAIN dataset_measures_
       THEN ReaderThrows("Semantic query validation failed: Dataset '"
                         \o ReaderQuery.dataset \o "' not found in registry")
       ELSE /\ reader' = [reader EXCEPT !.pc = "subscript"]
            /\ UNCHANGED last_error
    /\ UNCHANGED <<dataset_measures_, dataset_dimensions_, statement, register_result,
                   request, bind_data, output, rows_emitted, compile_calls, return_types,
                   names, before, registered, writer>>

\* ValidateQuery, lines 127-128: the two operator[] lookups
ReaderSubscript ==
    /\ reader.pc = "subscript"
    /\ LET after == Subscripted(GetInstance, ReaderQuery.dataset)
       IN  /\ dataset_measures_' = after.dataset_measures_
           /\ dataset_dimensions_' = after.dataset_dimensions_
    /\ reader' = [reader EXCEPT !.pc = "measures"]
    /\ UNCHANGED <<statement, register_result, request, bind_data, last_error, output,
                   rows_emitted, compile_calls, return_types, names, before, registered,
                   writer>>

\* one loop of ValidateQuery over the vector it reads now: on an error the
\* constructor throws, otherwise the thread goes on to next
ReaderValidates(pc, vector, error, next) ==
    /\ reader.pc = pc
    /\ IF error # ""
       THEN /\ last_error' = "Semantic query validation failed: " \o error
            /\ reader' = [reader EXCEPT !.pc = "done", !.seen = Append(@, vector)]
       ELSE /\ reader' = [reader EXCEPT !.pc = next, !.seen = Append(@, vector)]
            /\ UNCHANGED last_error
    /\ UNCHANGED <<dataset_measures_, dataset_dimensions_, statement, register_result,
                   request, bind_data, output, rows_emitted, compile_calls, return_types,
                   names, before, registered, writer>>

\* ValidateQuery, lines 131-143
ReaderMeasures ==
    ReaderValidates("measures", dataset_measures_[ReaderQuery.dataset],
                    MeasureError(dataset_measures_[ReaderQuery.dataset], ReaderQuery),
                    "dimensions")

\* ValidateQuery, lines 146-158
ReaderDimensions ==
    ReaderValidates("dimensions", dataset_dimensions_[ReaderQuery.dataset],
                    DimensionError(dataset_dimensions_[ReaderQuery.dataset], ReaderQuery),
                    "time_dimensions")

\* ValidateQuery, lines 161-175
ReaderTimeDimensions ==
    ReaderValidates("time_dimensions", dataset_dimensions_[ReaderQuery.dataset],
                    TimeDimensionError(dataset_dimensions_[ReaderQuery.dataset], ReaderQuery),
                    "lookup")

\* CompileSemanticQueryToSQL, lines 277-283: the two pointers
ReaderLookup ==
    /\ reader.pc = "lookup"
    /\ compile_calls' = compile_calls + 1
    /\ IF \/ GetMeasures(GetInstance, ReaderQuery.dataset).null
          \/ GetDimensions(GetInstance, ReaderQuery.dataset).null
       THEN ReaderThrows(DatasetNotFound(GetInstance, ReaderQuery).what)
       ELSE /\ reader' = [reader EXCEPT !.pc = "select_measures"]
            /\ UNCHANGED last_error
    /\ UNCHANGED <<dataset_measures_, dataset_dimensions_, statement, register_result,
                   request, bind_data, output, rows_emitted, return_types, names, before,
                   registered, writer>>

\* CompileSemanticQueryToSQL, lines 287-295: the loop over *measures
ReaderSelectMeasures ==
    /\ reader.pc = "select_measures"
    /\ reader' = [reader EXCEPT
                     !.pc = "select_dimensions",
                     !.select_list = MeasureItems(dataset_measures_[ReaderQuery.dataset],
                                                  ReaderQuery.measures)]
    /\ UNCHANGED <<dataset_measures_, dataset_dimensions_, statement, register_result,
                   request, bind_data, last_error, output, rows_emitted, compile_calls,
                   return_types, names, before, registered, writer>>

\* CompileSemanticQueryToSQL, lines 297-408, and the rest of SemanticQueryBind:
\* the loops over *dimensions, the test of the select list, the text
ReaderSelectDimensions ==
    /\ reader.pc = "select_dimensions"
    /\ LET dimensions == dataset_dimensions_[ReaderQuery.dataset]
           select_list == reader.select_list
                          \o DimensionItems(dimensions, ReaderQuery.dimensions)
                          \o TimeDimensionItems(dimensions, ReaderQuery.time_dimensions)
           explain_mode == ExplainMode(request)
       IN  IF select_list = <<>>
           THEN /\ last_error' = "No valid measures or dimensions specified"
                /\ reader' = [reader EXCEPT !.pc = "done", !.select_list = select_list]
                /\ UNCHANGED <<bind_data, return_types, names>>
           ELSE /\ bind_data' = [query_json |-> request[1].value,
                                 compiled_sql |-> SqlText(select_list, ReaderQuery),
                                 explained |-> explain_mode,
                                 finished |-> FALSE]
                /\ return_types' = IF explain_mode THEN <<"VARCHAR">>
                                   ELSE <<"VARCHAR", "BIGINT", "DATE">>
                /\ names' = IF explain_mode THEN <<"compiled_sql">>
                            ELSE <<"result", "count", "date">>
                /\ reader' = [reader EXCEPT !.pc = "done", !.select_list = select_list]
                /\ UNCHANGED last_error
    /\ UNCHANGED <<dataset_measures_, dataset_dimensions_, statement, register_result,
                   request, output, rows_emitted, compile_calls, before, registered, writer>>

\* the statement of the reading thread ends
ReaderEnd ==
    /\ reader.pc = "done"
    /\ reader' = ReaderIdle
    /\ statement' = "idle"
    /\ request' = <<>>
    /\ bind_data' = NoData
    /\ last_error' = ""
    /\ compile_calls' = 0
    /\ return_types' = <<>>
    /\ names' = <<>>
    /\ UNCHANGED <<dataset_measures_, dataset_dimensions_, register_result, output,
                   rows_emitted, before, registered, writer>>

ConcurrentNext ==
    \/ \E dataset_name \in DatasetNames, dataset_json \in ValidDatasetDocuments :
           WriterMeasures(dataset_name, dataset_json)
    \/ WriterDimensions
    \/ \E text \in ConcurrentQueryTexts : ReaderParse(<<Varchar(text), Boolean(TRUE)>>)
    \/ ReaderFind
    \/ ReaderSubscript
    \/ ReaderMeasures
    \/ ReaderDimensions
    \/ ReaderTimeDimensions
    \/ ReaderLookup
    \/ ReaderSelectMeasures
    \/ ReaderSelectDimensions
    \/ ReaderEnd

ConcurrentSpec == Init /\ [][ConcurrentNext]_vars

-----------------------------------------------------------------------------
(* What the claims speak of *)

StartsWith(text, prefix) ==
    /\ Len(prefix) <= Len(text)
    /\ SubSeq(text, 1, Len(prefix)) = prefix

Contains(text, part) ==
    \E i \in 1..(Len(text) - Len(part) + 1) : SubSeq(text, i, i + Len(part) - 1) = part

NamesOf(list) == {list[i].name : i \in 1..Len(list)}

Named(list, name) == CHOOSE e \in {list[i] : i \in 1..Len(list)} : e.name = name

\* the first element of wanted that is not in known, 0 when all are
FirstNotIn(wanted, known) ==
    IF \A i \in 1..Len(wanted) : wanted[i] \in known THEN 0
    ELSE CHOOSE i \in 1..Len(wanted) :
             /\ wanted[i] \notin known
             /\ \A k \in 1..(i - 1) : wanted[k] \in known

\* a SEMANTIC_QUERY statement has been answered, and its text was valid JSON
Answered == statement = "semantic_query" /\ request[1].value.valid

RequestQuery == ParseSemanticQuery(request[1].value).query

Succeeded == Answered /\ bind_data # NoData

\* the definition the latest REGISTER_DATASET gave the dataset of the request
RequestMeasures == ParseMeasures(registered[RequestQuery.dataset].j)

RequestDimensions == ParseDimensions(registered[RequestQuery.dataset].j)

ValidationFailed == "Semantic query validation failed: "

ProbeQuery(dataset, measures, dimensions) ==
    [dataset |-> dataset, measures |-> measures, dimensions |-> dimensions,
     filters |-> <<>>, time_dimensions |-> <<>>, order |-> <<>>, limit |-> -1,
     time_zone |-> ""]

-----------------------------------------------------------------------------
\* C1: whatever REGISTER_DATASET statements have run, what GetMeasures,
\* GetDimensions, ValidateQuery and CompileSemanticQueryToSQL observe for a
\* name is exactly the definition of its most recent registration: nothing of
\* an earlier definition is left.
C1_LastWriteWins ==
    \A n \in DOMAIN registered :
        LET measures == ParseMeasures(registered[n].j)
            dimensions == ParseDimensions(registered[n].j)
        IN  /\ GetMeasures(GetInstance, n) = [null |-> FALSE, value |-> measures]
            /\ GetDimensions(GetInstance, n) = [null |-> FALSE, value |-> dimensions]
            /\ \A m \in MeasureNames :
                   /\ ValidateQuery(GetInstance, ProbeQuery(n, <<m>>, <<>>)).ok
                          <=> m \in NamesOf(measures)
                   /\ m \in NamesOf(measures) =>
                          CompileSemanticQueryToSQL(GetInstance, ProbeQuery(n, <<m>>, <<>>)).sql
                              = "SELECT " \o Named(measures, m).sql_expression \o " AS " \o m
                                \o " FROM " \o n
            /\ \A d \in DimensionNames :
                   /\ ValidateQuery(GetInstance, ProbeQuery(n, <<>>, <<d>>)).ok
                          <=> d \in NamesOf(dimensions)
                   /\ d \in NamesOf(dimensions) =>
                          CompileSemanticQueryToSQL(GetInstance, ProbeQuery(n, <<>>, <<d>>)).sql
                              = "SELECT " \o Named(dimensions, d).sql_expression \o " AS " \o d
                                \o " FROM " \o n

\* a REGISTER_DATASET statement has just replaced a different definition of
\* the name, measures and dimensions both
C1_Reregistered ==
    /\ statement = "register"
    /\ last_error = ""
    /\ request[1].value \in DOMAIN before.dataset_measures_
    /\ before.dataset_measures_[request[1].value] # <<>>
    /\ before.dataset_measures_[request[1].value] # dataset_measures_[request[1].value]
    /\ before.dataset_dimensions_[request[1].value] # <<>>
    /\ before.dataset_dimensions_[request[1].value] # dataset_dimensions_[request[1].value]

\* C3: a query whose dataset name is not registered fails validation with
\* "Dataset '<name>' not found in registry", and the compiler is not called.
C3_UnknownDataset ==
    (Answered /\ RequestQuery.dataset \notin DOMAIN registered) =>
        /\ last_error = ValidationFailed \o "Dataset '" \o RequestQuery.dataset
                        \o "' not found in registry"
        /\ compile_calls = 0
        /\ bind_data = NoData

\* a query on a name that was never registered, while another name is
C3_UnknownDatasetAsked ==
    /\ Answered
    /\ RequestQuery.dataset = "nonexistent_ds"
    /\ RequestQuery.measures # <<>>
    /\ DOMAIN registered # {}

\* C4: validation reports one error, the first in the order dataset, measures,
\* dimensions, time dimensions, each list in declaration order; the error
\* names the first unmatched name of that phase and the dataset.
C4_FirstError ==
    Answered =>
        IF RequestQuery.dataset \notin DOMAIN registered
        THEN last_error = ValidationFailed \o "Dataset '" \o RequestQuery.dataset
                          \o "' not found in registry"
        ELSE LET q == RequestQuery
                 m == FirstNotIn(q.measures, NamesOf(RequestMeasures))
                 d == FirstNotIn(q.dimensions, NamesOf(RequestDimensions))
                 t == FirstNotIn(TimeDimensionNames(q), NamesOf(RequestDimensions))
                 in_dataset == "' not found in dataset '" \o q.dataset \o "'"
             IN  IF m # 0
                 THEN last_error = ValidationFailed \o "Measure '" \o q.measures[m] \o in_dataset
                 ELSE IF d # 0
                 THEN last_error = ValidationFailed \o "Dimension '" \o q.dimensions[d]
                                   \o in_dataset
                 ELSE IF t # 0
                 THEN last_error = ValidationFailed \o "Time dimension '"
                                   \o q.time_dimensions[t].dimension \o in_dataset
                 ELSE ~StartsWith(last_error, ValidationFailed)

\* a query with an unknown measure and an unknown dimension, the unknown
\* measure behind a known one
C4_MeasureAndDimensionUnknown ==
    /\ Answered
    /\ RequestQuery.dataset \in DOMAIN registered
    /\ RequestQuery.measures = <<"total_revenue", "invalid_measure">>
    /\ RequestQuery.dimensions = <<"invalid_dimension">>
    /\ last_error = ValidationFailed \o "Measure 'invalid_measure' not found in dataset 'orders_ds'"

\* C5: a SEMANTIC_QUERY statement that fails leaves both maps of the registry
\* as they were when it began.
C5_FailureLeavesRegistry ==
    (statement = "semantic_query" /\ last_error # "") =>
        /\ dataset_measures_ = before.dataset_measures_
        /\ dataset_dimensions_ = before.dataset_dimensions_

\* each kind of failure has happened: here a validation failure on a
\* registered dataset, after the references into both maps were taken
C5_ValidationFailed ==
    /\ Answered
    /\ RequestQuery.dataset \in DOMAIN registered
    /\ StartsWith(last_error, ValidationFailed \o "Dimension '")

\* C6: a query on a registered dataset with no measures, dimensions or time
\* windows fails with "No valid measures or dimensions specified" and no SQL,
\* whatever its filters, order and limit.
C6_EmptySelection ==
    (/\ Answered
     /\ RequestQuery.dataset \in DOMAIN registered
     /\ RequestQuery.measures = <<>>
     /\ RequestQuery.dimensions = <<>>
     /\ RequestQuery.time_dimensions = <<>>) =>
        /\ last_error = "No valid measures or dimensions specified"
        /\ bind_data = NoData

\* an empty selection with a filter, an order term and a limit
C6_EmptySelectionWithClauses ==
    /\ Answered
    /\ RequestQuery.dataset \in DOMAIN registered
    /\ RequestQuery.measures = <<>>
    /\ RequestQuery.dimensions = <<>>
    /\ RequestQuery.time_dimensions = <<>>
    /\ RequestQuery.filters # <<>>
    /\ RequestQuery.order # <<>>
    /\ RequestQuery.limit > 0
    /\ last_error # ""

\* C7: while no REGISTER_DATASET runs, compiling the query of a bound request
\* again gives the SQL text the request got, and the compilation has left the
\* registry as it found it.
C7_CompileAgain ==
    (statement = "semantic_query" /\ bind_data # NoData) =>
        LET again == CompileSemanticQueryToSQL(GetInstance,
                                               ParseSemanticQuery(bind_data.query_json).query)
        IN  /\ GetInstance = before
            /\ ~again.threw
            /\ again.sql = bind_data.compiled_sql
            /\ again.registry = GetInstance

\* a bound request whose SQL has been returned by a scan
C7_CompiledAndScanned ==
    /\ statement = "semantic_query"
    /\ bind_data # NoData
    /\ bind_data.finished
    /\ rows_emitted = 1

\* the select item the claims give a measure or dimension name
ClaimedItem(list, name) == Named(list, name).sql_expression \o " AS " \o name

\* the expression the claims give a time window
ClaimedTimeExpr(expression, granularity) ==
    IF granularity \in {"day", "month", "year"}
    THEN "DATE_TRUNC('" \o granularity \o "', " \o expression \o ")"
    ELSE expression

\* C8: the selection list of the compiled SQL is one item '<expression> AS
\* <name>' per entry of query.measures, then one per entry of
\* query.dimensions, then one per time window, each list in declaration order
\* and duplicates kept.
C8_SelectionOrder ==
    Succeeded =>
        LET q == RequestQuery
            expected ==
                [i \in 1..Len(q.measures) |-> ClaimedItem(RequestMeasures, q.measures[i])]
                \o [i \in 1..Len(q.dimensions) |->
                       ClaimedItem(RequestDimensions, q.dimensions[i])]
                \o [i \in 1..Len(q.time_dimensions) |->
                       TimeExpr(Named(RequestDimensions, q.time_dimensions[i].dimension),
                                q.time_dimensions[i])
                       \o " AS " \o q.time_dimensions[i].dimension]
        IN  StartsWith(bind_data.compiled_sql,
                       "SELECT " \o Join(expected, ", ") \o " FROM ")

\* a measure selected twice, then a dimension
C8_DuplicateMeasureThenDimension ==
    /\ Succeeded
    /\ RequestQuery.measures = <<"total_revenue", "total_revenue">>
    /\ RequestQuery.dimensions = <<"customer_id">>
    /\ StartsWith(bind_data.compiled_sql,
                  "SELECT SUM(order_amount) AS total_revenue, SUM(order_amount) AS total_revenue, "
                  \o "customer_id AS customer_id FROM ")

\* the query of test 14, on the registration of test 1
Test14 ==
    /\ registered[RequestQuery.dataset] = OrdersDocument
    /\ request[1].value =
           Text([dataset |-> "orders_ds", measures |-> <<"total_revenue">>,
                 time_dimensions |-> <<[dimension |-> "order_date", granularity |-> "year"]>>])

\* C9: the expression selected for a time window is DATE_TRUNC('<g>',
\* <dimension expression>) when its granularity g is day, month or year, and
\* the dimension's expression unchanged when the granularity is absent, empty
\* or any other string; its alias is the window's dimension name.
C9_TimeWindowExpression ==
    (Succeeded /\ RequestQuery.time_dimensions # <<>>) =>
        LET q == RequestQuery
            windows ==
                [i \in 1..Len(q.time_dimensions) |->
                    ClaimedTimeExpr(
                        Named(RequestDimensions, q.time_dimensions[i].dimension).sql_expression,
                        q.time_dimensions[i].granularity)
                    \o " AS " \o q.time_dimensions[i].dimension]
        IN  /\ StartsWith(bind_data.compiled_sql,
                          "SELECT "
                          \o Join(MeasureItems(RequestMeasures, q.measures)
                                  \o DimensionItems(RequestDimensions, q.dimensions)
                                  \o windows, ", ")
                          \o " FROM ")
            /\ Test14 =>
                   bind_data.compiled_sql =
                       "SELECT SUM(order_amount) AS total_revenue, "
                       \o "DATE_TRUNC('year', order_date) AS order_date "
                       \o "FROM orders_ds GROUP BY order_date"

\* a time window whose granularity is none of day, month, year
C9_OtherGranularity ==
    /\ Succeeded
    /\ Len(RequestQuery.time_dimensions) = 1
    /\ RequestQuery.time_dimensions[1].granularity = "week"
    /\ RequestQuery.measures = <<>>
    /\ StartsWith(bind_data.compiled_sql, "SELECT order_date AS order_date FROM orders_ds")

\* the predicate the claims give a filter that has values
ClaimedPredicate(filter) ==
    LET quoted == [i \in 1..Len(filter.values) |-> "'" \o filter.values[i] \o "'"]
    IN  IF filter.operator_ = "equals"
        THEN IF Len(filter.values) = 1
             THEN filter.dimension \o " = " \o quoted[1]
             ELSE filter.dimension \o " IN (" \o Join(quoted, ", ") \o ")"
        ELSE IF Len(filter.values) = 1
             THEN filter.dimension \o " != " \o quoted[1]
             ELSE filter.dimension \o " NOT IN (" \o Join(quoted, ", ") \o ")"

\* the query of test 15, on the registration of test 1
Test15 ==
    /\ registered[RequestQuery.dataset] = OrdersDocument
    /\ request[1].value =
           Text([dataset |-> "orders_ds", measures |-> <<"total_revenue">>,
                 filters |-> <<[dimension |-> "customer_id", operator |-> "not_equals",
                                values |-> <<"999">>]>>])

\* C10: a filter with operator equals compiles to "<dimension> = '<v>'" when it
\* has one value and to "<dimension> IN ('<v1>', '<v2>', ...)" with all its
\* values in their order when it has more; not_equals compiles the same way
\* with != and NOT IN.
C10_FilterPredicate ==
    Succeeded =>
        /\ \A i \in 1..Len(RequestQuery.filters) :
               LET filter == RequestQuery.filters[i]
               IN  (filter.operator_ \in {"equals", "not_equals"} /\ Len(filter.values) >= 1) =>
                       \/ Contains(bind_data.compiled_sql, " WHERE " \o ClaimedPredicate(filter))
                       \/ Contains(bind_data.compiled_sql, " AND " \o ClaimedPredicate(filter))
        /\ Test15 =>
               bind_data.compiled_sql =
                   "SELECT SUM(order_amount) AS total_revenue FROM orders_ds "
                   \o "WHERE customer_id != '999'"

\* an equals filter with two values
C10_TwoValues ==
    /\ Succeeded
    /\ Len(RequestQuery.filters) = 1
    /\ RequestQuery.filters[1].operator_ = "equals"
    /\ RequestQuery.filters[1].values = <<"456", "123">>
    /\ Contains(bind_data.compiled_sql, " WHERE customer_id IN ('456', '123')")

\* the measures and the dimensions the validation of the reading thread has
\* read are those of one registration
ConsistentView ==
    Len(reader.seen) >= 2 =>
        \E d \in ValidDatasetDocuments :
            /\ reader.seen[1] = ParseMeasures(d.j)
            /\ reader.seen[2] = ParseDimensions(d.j)

\* C2: a registration is atomic for a thread that validates or compiles
\* meanwhile: the thread reads the measures and the dimensions of one
\* definition of the name, never the measures of one with the dimensions of
\* another or of none, and no step of the reading thread changes the registry.
C2_AtomicRegistration ==
    [][reader' # reader =>
          /\ dataset_measures_' = dataset_measures_
          /\ dataset_dimensions_' = dataset_dimensions_
          /\ ConsistentView']_vars

-----------------------------------------------------------------------------
\* what the answered request gave: the error thrown or the SQL compiled
Observed ==
    IF bind_data = NoData
    THEN [threw |-> TRUE, what |-> last_error]
    ELSE [threw |-> FALSE, sql |-> bind_data.compiled_sql]

\* what validating and compiling query gives on a registry
OutcomeOn(registry, query) ==
    LET validated == ValidateQuery(registry, query)
    IN  IF ~validated.ok
        THEN [threw |-> TRUE, what |-> ValidationFailed \o validated.error_msg]
        ELSE LET compiled == CompileSemanticQueryToSQL(validated.registry, query)
             IN  IF compiled.threw
                 THEN [threw |-> TRUE, what |-> compiled.what]
                 ELSE [threw |-> FALSE, sql |-> compiled.sql]

\* what validating and compiling query gives on the registry the statement
\* started with
QueryOutcome(query) == OutcomeOn(before, query)

\* list without its i-th element
Without(list, i) == SubSeq(list, 1, i - 1) \o SubSeq(list, i + 1, Len(list))

-----------------------------------------------------------------------------
\* the lists of a list of lists, one after the other
RECURSIVE Concat(_)
Concat(lists) ==
    IF lists = <<>> THEN <<>> ELSE Head(lists) \o Concat(Tail(lists))

\* the predicates the claims give the filters and the time windows of a query
ClaimedFilterPredicates(query) ==
    Concat([i \in 1..Len(query.filters) |->
               IF /\ query.filters[i].operator_ \in {"equals", "not_equals"}
                  /\ Len(query.filters[i].values) >= 1
               THEN <<ClaimedPredicate(query.filters[i])>>
               ELSE <<>>])

ClaimedRangePredicates(query) ==
    Concat([i \in 1..Len(query.time_dimensions) |->
               LET window == query.time_dimensions[i]
               IN  IF Len(window.date_range) = 2
                   THEN <<window.dimension \o " >= '" \o window.date_range[1] \o "'",
                          window.dimension \o " <= '" \o window.date_range[2] \o "'">>
                   ELSE <<>>])

\* the text of the request up to the table it selects from
SelectFrom ==
    "SELECT " \o Join(SelectList(RequestMeasures, RequestDimensions, RequestQuery), ", ")
    \o " FROM " \o RequestQuery.dataset

\* C12: a time window whose date_range has exactly two entries adds
\* "<dimension> >= '<start>'" and "<dimension> <= '<end>'" in this order, one
\* of any other length adds nothing; the WHERE clause joins with AND the
\* predicates of the filters in their order, then those of the time windows
\* in their order, and there is no WHERE clause when there is no predicate.
C12_WhereClause ==
    Succeeded =>
        LET predicates == ClaimedFilterPredicates(RequestQuery)
                          \o ClaimedRangePredicates(RequestQuery)
        IN  bind_data.compiled_sql =
                SelectFrom
                \o (IF predicates = <<>> THEN "" ELSE " WHERE " \o Join(predicates, " AND "))
                \o GroupByClause(RequestQuery)
                \o OrderByClause(RequestQuery)
                \o LimitClause(RequestQuery)

\* a filter and a time window with a date range of two entries, compiled
C12_FilterThenDateRange ==
    /\ Succeeded
    /\ Len(RequestQuery.filters) = 1
    /\ Len(RequestQuery.time_dimensions) = 1
    /\ Len(RequestQuery.time_dimensions[1].date_range) = 2
    /\ Contains(bind_data.compiled_sql,
                " WHERE customer_id = '123' AND order_date >= '2025-01-01'"
                \o " AND order_date <= '2025-01-31'")

\* a time window with a date range of one entry, compiled
C12_DateRangeOfOne ==
    /\ Succeeded
    /\ RequestQuery.filters = <<>>
    /\ Len(RequestQuery.time_dimensions) = 1
    /\ Len(RequestQuery.time_dimensions[1].date_range) = 1
    /\ ~Contains(bind_data.compiled_sql, " WHERE ")

-----------------------------------------------------------------------------
\* the names the claims list in the GROUP BY clause
ClaimedGroupNames(query) ==
    query.dimensions
    \o [i \in 1..Len(query.time_dimensions) |-> query.time_dimensions[i].dimension]

\* the compiled text of the request with group_by standing for its GROUP BY
\* clause
WithGroupBy(group_by) ==
    SelectFrom \o WhereClause(RequestQuery) \o group_by
    \o OrderByClause(RequestQuery) \o LimitClause(RequestQuery)

-----------------------------------------------------------------------------
\* the document of the request
RequestDocument == request[1].value.j

\* C14: the compiled text ends with 'LIMIT <n>' exactly when the document has
\* a limit n that is strictly positive; with the limit absent, 0 or negative
\* the text has no LIMIT clause.
C14_LimitClause ==
    Succeeded =>
        LET positive == Has(RequestDocument, "limit") /\ RequestDocument.limit > 0
            to_limit == SelectFrom \o WhereClause(RequestQuery) \o GroupByClause(RequestQuery)
                        \o OrderByClause(RequestQuery)
        IN  /\ positive =>
                   bind_data.compiled_sql
                       = to_limit \o " LIMIT " \o ToString(RequestDocument.limit)
            /\ ~positive =>
                   /\ bind_data.compiled_sql = to_limit
                   /\ ~Contains(bind_data.compiled_sql, "LIMIT")

\* the query of test 6 (limit 10), compiled
C14_LimitTen ==
    /\ Succeeded
    /\ Has(RequestDocument, "limit")
    /\ RequestDocument.limit = 10
    /\ bind_data.compiled_sql =
           "SELECT SUM(order_amount) AS total_revenue, customer_id AS customer_id "
           \o "FROM orders_ds GROUP BY customer_id ORDER BY total_revenue DESC LIMIT 10"

\* a query with limit 0, compiled
C14_LimitZero ==
    /\ Succeeded
    /\ Has(RequestDocument, "limit")
    /\ RequestDocument.limit = 0
    /\ bind_data.compiled_sql = "SELECT SUM(order_amount) AS total_revenue FROM orders_ds"

-----------------------------------------------------------------------------
\* the order terms of the document of the request
RequestOrder == IF Has(RequestDocument, "order") THEN RequestDocument.order ELSE <<>>

\* the text the claims give an order term of the document
ClaimedOrderTerm(term) ==
    IF Has(term, "desc") /\ term.desc THEN term.id \o " DESC" ELSE term.id

\* C15: an ORDER BY clause is emitted exactly when the query has order terms;
\* it lists the id of every term in their order, separated by commas, with
\* ' DESC' after a term exactly when its desc flag is true (false when the
\* document leaves it out).
C15_OrderByClause ==
    Succeeded =>
        LET terms == [i \in 1..Len(RequestOrder) |-> ClaimedOrderTerm(RequestOrder[i])]
            to_order == SelectFrom \o WhereClause(RequestQuery) \o GroupByClause(RequestQuery)
        IN  /\ terms # <<>> =>
                   bind_data.compiled_sql =
                       to_order \o " ORDER BY " \o Join(terms, ", ")
                       \o LimitClause(RequestQuery)
            /\ terms = <<>> =>
                   /\ bind_data.compiled_sql = to_order \o LimitClause(RequestQuery)
                   /\ ~Contains(bind_data.compiled_sql, "ORDER BY")

\* a descending term followed by a term without a desc flag, compiled
C15_DescendingThenDefault ==
    /\ Succeeded
    /\ Len(RequestOrder) = 2
    /\ RequestOrder[1] = [id |-> "total_revenue", desc |-> TRUE]
    /\ RequestOrder[2] = [id |-> "order_count"]
    /\ Contains(bind_data.compiled_sql,
                " GROUP BY customer_id ORDER BY total_revenue DESC, order_count")

-----------------------------------------------------------------------------
\* C16: a query document with no dataset field is parsed with dataset = ""
\* and rejected by the validation with the unknown-dataset error, whatever
\* datasets have been registered.
C16_MissingDatasetRejected ==
    (Answered /\ ~Has(RequestDocument, "dataset")) =>
        /\ RequestQuery.dataset = ""
        /\ bind_data = NoData
        /\ last_error = ValidationFailed \o "Dataset '' not found in registry"

-----------------------------------------------------------------------------
\* the aliases of the selection list of the request, in its order
SelectedAliases ==
    RequestQuery.measures \o RequestQuery.dimensions \o TimeDimensionNames(RequestQuery)

\* the type the claims infer for each selected alias: a measure is numeric, a
\* dimension has its declared type, a time dimension is temporal
SelectedTypes ==
    [i \in 1..Len(RequestQuery.measures) |-> "BIGINT"]
    \o [i \in 1..Len(RequestQuery.dimensions) |->
           Named(RequestDimensions, RequestQuery.dimensions[i]).data_type]
    \o [i \in 1..Len(RequestQuery.time_dimensions) |-> "DATE"]

\* C17: the columns SEMANTIC_QUERY binds in normal mode are the aliases of the
\* compiled selection list, as many and in the same order, and a dimension's
\* column has the type the dataset declares for it.
C17_SchemaOfSelection ==
    (Succeeded /\ ~bind_data.explained) =>
        /\ names = SelectedAliases
        /\ Len(return_types) = Len(SelectedAliases)
        /\ \A i \in 1..Len(RequestQuery.dimensions) :
               return_types[Len(RequestQuery.measures) + i]
                   = SelectedTypes[Len(RequestQuery.measures) + i]

-----------------------------------------------------------------------------
\* C18: the time zone of a query has no effect: the request is answered as
\* the query with any other time zone, or none, is: the same error of the
\* validation or the same SQL text.
C18_TimeZoneIgnored ==
    Answered =>
        \A z \in TimeZones :
            Observed = QueryOutcome([RequestQuery EXCEPT !.time_zone = z])

\* a query with a time window and a time zone, compiled
C18_TimeZoneGiven ==
    /\ Succeeded
    /\ RequestQuery.time_zone = "America/New_York"
    /\ bind_data.compiled_sql =
           "SELECT SUM(order_amount) AS total_revenue, "
           \o "DATE_TRUNC('day', order_date) AS order_date FROM orders_ds "
           \o "WHERE order_date >= '2025-01-01' AND order_date <= '2025-01-31' "
           \o "GROUP BY order_date"

-----------------------------------------------------------------------------
\* the entry a map has for a name, if any
Entry(map, name) ==
    IF name \in DOMAIN map THEN [null |-> FALSE, value |-> map[name]] ELSE NullPtr

\* C19: a REGISTER_DATASET statement for a name leaves every other name as it
\* was: the same measures and dimensions, or none, and every query on it is
\* answered after the registration as before it.
C19_OtherDatasetsKept ==
    statement = "register" =>
        \A n \in DatasetNames \ {request[1].value} :
            /\ Entry(dataset_measures_, n) = Entry(before.dataset_measures_, n)
            /\ Entry(dataset_dimensions_, n) = Entry(before.dataset_dimensions_, n)
            /\ \A m \in MeasureNames, d \in DimensionNames :
                   OutcomeOn(GetInstance, ProbeQuery(n, <<m>>, <<d>>))
                       = OutcomeOn(before, ProbeQuery(n, <<m>>, <<d>>))

\* a name registered again with another definition while another name is
\* registered with the document of test 1
C19_ReregisteredBesideAnother ==
    /\ statement = "register"
    /\ register_result # ""
    /\ request[1].value = ""
    /\ "" \in DOMAIN before.dataset_measures_
    /\ before.dataset_measures_[""] # dataset_measures_[""]
    /\ "orders_ds" \in DOMAIN before.dataset_measures_
    /\ OutcomeOn(GetInstance, ProbeQuery("orders_ds", <<"total_revenue">>, <<"customer_id">>))
           = [threw |-> FALSE,
              sql |-> "SELECT SUM(order_amount) AS total_revenue, customer_id AS customer_id "
                      \o "FROM orders_ds GROUP BY customer_id"]

-----------------------------------------------------------------------------
\* C20: over the calls of SemanticQueryFunction on one bound request exactly
\* one row is emitted in all: before the first call none and finished is
\* false; the first call emits one row and sets finished; every later call
\* emits none. In explain mode the row is one column, the compiled SQL text.
C20_OneRowInTotal ==
    Succeeded =>
        /\ output = <<>> => (~bind_data.finished /\ rows_emitted = 0)
        /\ output # <<>> =>
               /\ bind_data.finished
               /\ rows_emitted = 1
               /\ output.cardinality \in {0, 1}
               /\ (output.cardinality = 1 /\ bind_data.explained) =>
                      output.row = <<QueryOutcome(RequestQuery).sql>>
               /\ (output.cardinality = 1 /\ ~bind_data.explained) =>
                      Len(output.row) = 3
               /\ output.cardinality = 0 => output.row = <<>>

\* the query of test 8 in explain mode, after a call that came after the one
\* that emitted its row
C20_ScannedAgain ==
    /\ Succeeded
    /\ bind_data.explained
    /\ bind_data.finished
    /\ rows_emitted = 1
    /\ output # <<>>
    /\ output.cardinality = 0
    /\ bind_data.compiled_sql =
           "SELECT SUM(order_amount) AS total_revenue, customer_id AS customer_id "
           \o "FROM orders_ds GROUP BY customer_id"

-----------------------------------------------------------------------------
\* the error of a query on a dataset the registry does not have
UnknownDataset(name) == "Dataset '" \o name \o "' not found in registry"

\* C21: a name that has been registered stays resolvable: after any later
\* statements, successful or failed, the registry has it, a query naming it
\* does not fail with the unknown-dataset error, and no step removes it.
C21_StaysResolvable ==
    /\ \A n \in DOMAIN registered :
           /\ ~GetMeasures(GetInstance, n).null
           /\ ~GetDimensions(GetInstance, n).null
           /\ \A m \in MeasureNames, d \in DimensionNames :
                  LET outcome == OutcomeOn(GetInstance, ProbeQuery(n, <<m>>, <<d>>))
                  IN  outcome.threw =>
                          /\ outcome.what # ValidationFailed \o UnknownDataset(n)
                          /\ outcome.what # UnknownDataset(n)
    /\ (Answered /\ RequestQuery.dataset \in DOMAIN registered) =>
           /\ last_error # ValidationFailed \o UnknownDataset(RequestQuery.dataset)
           /\ last_error # UnknownDataset(RequestQuery.dataset)

\* a query on a name registered earlier, answered after a registration that
\* failed and a registration of the name with an empty definition
C21_AskedAfterEmptyDefinition ==
    /\ Answered
    /\ RequestQuery.dataset = "orders_ds"
    /\ "orders_ds" \in DOMAIN registered
    /\ registered["orders_ds"] = EmptyDocument
    /\ last_error = ValidationFailed
                    \o "Measure 'total_revenue' not found in dataset 'orders_ds'"

-----------------------------------------------------------------------------
\* the request without its filters and its order terms
WithoutFiltersAndOrder == [RequestQuery EXCEPT !.filters = <<>>, !.order = <<>>]

\* C22: the validation looks at the dataset, the measures, the dimensions and
\* the time dimensions only: a request passes or fails it as the same query
\* without filters and order terms does, whatever these name, and when it
\* compiles, the dimension of each filter and the id of each order term are
\* in the WHERE and ORDER BY clauses as the query gives them.
C22_FiltersAndOrderUnchecked ==
    Answered =>
        /\ Observed.threw = QueryOutcome(WithoutFiltersAndOrder).threw
        /\ Observed.threw => Observed.what = QueryOutcome(WithoutFiltersAndOrder).what
        /\ Succeeded =>
               LET predicates == ClaimedFilterPredicates(RequestQuery)
                                 \o ClaimedRangePredicates(RequestQuery)
                   terms == [i \in 1..Len(RequestOrder) |-> ClaimedOrderTerm(RequestOrder[i])]
               IN  bind_data.compiled_sql =
                       SelectFrom
                       \o (IF predicates = <<>> THEN ""
                           ELSE " WHERE " \o Join(predicates, " AND "))
                       \o GroupByClause(RequestQuery)
                       \o (IF terms = <<>> THEN "" ELSE " ORDER BY " \o Join(terms, ", "))
                       \o LimitClause(RequestQuery)

\* a filter on a name that is no dimension of the dataset, compiled
C22_FilterOnUnknownName ==
    /\ Succeeded
    /\ registered[RequestQuery.dataset] = RevisedDocument
    /\ Len(RequestQuery.filters) = 1
    /\ RequestQuery.filters[1].dimension = "region"
    /\ "region" \notin NamesOf(RequestDimensions)
    /\ "region" \notin NamesOf(RequestMeasures)
    /\ bind_data.compiled_sql =
           "SELECT SUM(net_amount) AS total_revenue FROM orders_ds "
           \o "WHERE region NOT IN ('123', '456')"

\* an order term on a name that is no measure or dimension of the dataset,
\* compiled
C22_OrderOnUnknownName ==
    /\ Succeeded
    /\ registered[RequestQuery.dataset] = RevisedDocument
    /\ Len(RequestOrder) = 1
    /\ RequestOrder[1].id = "order_count"
    /\ "order_count" \notin NamesOf(RequestDimensions)
    /\ "order_count" \notin NamesOf(RequestMeasures)
    /\ bind_data.compiled_sql =
           "SELECT SUM(net_amount) AS total_revenue, c.id AS customer_id FROM orders_ds "
           \o "GROUP BY customer_id ORDER BY order_count"

-----------------------------------------------------------------------------
C23_QuoteInDateRange ==
    /\ Succeeded
    /\ bind_data.compiled_sql =
           "SELECT SUM(order_amount) AS total_revenue, order_date AS order_date "
           \o "FROM orders_ds "
           \o "WHERE customer_id NOT IN ('123', 'x') OR ('1'='1') "
           \o "AND order_date >= '2025-01-01' AND order_date <= '2025-12-31' OR '1'='1' "
           \o "GROUP BY order_date"

-----------------------------------------------------------------------------
\* the list a document has under a key, empty when it has none
ListOf(document, key) == IF Has(document, key) THEN document[key] ELSE <<>>

\* the statement was a REGISTER_DATASET that returned its message
Registered == statement = "register" /\ register_result # ""

RegisteredName == request[1].value

RegisteredDocument == request[2].value.j

\* the dimension list C24 claims for a document
ClaimedDimensions(document) ==
    LET dimensions == ListOf(document, "dimensions")
        time_dimensions == ListOf(document, "time_dimensions")
    IN  [i \in 1..(Len(dimensions) + Len(time_dimensions)) |->
            IF i <= Len(dimensions)
            THEN [name |-> dimensions[i].name, sql_expression |-> dimensions[i].sql,
                  data_type |-> "VARCHAR"]
            ELSE [name |-> time_dimensions[i - Len(dimensions)].name,
                  sql_expression |-> time_dimensions[i - Len(dimensions)].sql,
                  data_type |-> "DATE"]]

\* a query of the registered dataset that names a dimension in dimensions
AsDimension(name) == ProbeQuery(RegisteredName, <<>>, <<name>>)

\* a query of the registered dataset that names a dimension in time_dimensions
AsTimeDimension(name) ==
    [ProbeQuery(RegisteredName, <<>>, <<>>) EXCEPT
        !.time_dimensions = <<[dimension |-> name, granularity |-> "", date_range |-> <<>>]>>]

\* C24: REGISTER_DATASET stores the dimensions of the document in their order
\* followed by its time_dimensions in their order as one list, the time
\* dimensions typed DATE and the others VARCHAR; a measure with no type has
\* aggregation type sum; and a registered time dimension is accepted, and
\* compiled, both in the dimensions and in the time_dimensions of a query.
C24_TimeDimensionsFolded ==
    Registered =>
        LET measures == ListOf(RegisteredDocument, "measures")
            time_dimensions == ListOf(RegisteredDocument, "time_dimensions")
        IN  /\ dataset_dimensions_[RegisteredName] = ClaimedDimensions(RegisteredDocument)
            /\ Len(dataset_measures_[RegisteredName]) = Len(measures)
            /\ \A i \in 1..Len(measures) :
                   /\ dataset_measures_[RegisteredName][i].name = measures[i].name
                   /\ dataset_measures_[RegisteredName][i].sql_expression = measures[i].sql
                   /\ dataset_measures_[RegisteredName][i].aggregation_type =
                          IF Has(measures[i], "type") THEN measures[i].type ELSE "sum"
            /\ \A i \in 1..Len(time_dimensions) :
                   /\ ~OutcomeOn(GetInstance, AsDimension(time_dimensions[i].name)).threw
                   /\ ~OutcomeOn(GetInstance, AsTimeDimension(time_dimensions[i].name)).threw

\* the registration of test 1 has run: two dimensions, then the time dimension
C24_Test1Registered ==
    /\ Registered
    /\ RegisteredName = "orders_ds"
    /\ dataset_dimensions_["orders_ds"] =
           <<[name |-> "customer_id", sql_expression |-> "customer_id", data_type |-> "VARCHAR"],
             [name |-> "region", sql_expression |-> "region", data_type |-> "VARCHAR"],
             [name |-> "order_date", sql_expression |-> "order_date", data_type |-> "DATE"]>>
    /\ OutcomeOn(GetInstance, AsDimension("order_date")).sql =
           "SELECT order_date AS order_date FROM orders_ds"
    /\ OutcomeOn(GetInstance, AsTimeDimension("order_date")).sql =
           "SELECT order_date AS order_date FROM orders_ds"

\* a measure with no type field has been registered
C24_MeasureWithoutType ==
    /\ Registered
    /\ ListOf(RegisteredDocument, "measures") # <<>>
    /\ ~Has(RegisteredDocument.measures[1], "type")
    /\ dataset_measures_[RegisteredName][1].aggregation_type = "sum"

-----------------------------------------------------------------------------
\* the three loops of the validation of the reading thread have read the
\* vectors of one registration, and found every name of the query
ValidatedOnOneDefinition ==
    /\ Len(reader.seen) = 3
    /\ reader.seen[3] = reader.seen[2]
    /\ \E d \in ValidDatasetDocuments :
           /\ reader.seen[1] = ParseMeasures(d.j)
           /\ reader.seen[2] = ParseDimensions(d.j)

\* C25: when a registration of the dataset of the query runs between the
\* validation and the compilation of one request, the compiled selection
\* list still has one item for every measure, dimension and time dimension
\* the query names: no name that passed validation is dropped.
C25_NothingDropped ==
    (reader.pc = "done" /\ bind_data # NoData /\ ValidatedOnOneDefinition) =>
        Len(reader.select_list) =
            Len(ReaderQuery.measures) + Len(ReaderQuery.dimensions)
            + Len(ReaderQuery.time_dimensions)

-----------------------------------------------------------------------------
\* the places of text where part is
Places(text, part) ==
    {i \in 1..(Len(text) - Len(part) + 1) : SubSeq(text, i, i + Len(part) - 1) = part}

Occurrences(text, part) == Cardinality(Places(text, part))

\* the text of sql between SELECT and the first FROM
SelectPart(sql) ==
    LET from == CHOOSE i \in Places(sql, " FROM ") : \A k \in Places(sql, " FROM ") : i <= k
    IN  SubSeq(sql, Len("SELECT ") + 1, from - 1)

\* the number of names the query of the request selects
RequestedNames ==
    Len(RequestQuery.measures) + Len(RequestQuery.dimensions)
    + Len(RequestQuery.time_dimensions)

\* C26: when ValidateQuery succeeds on the registry the statement finds and
\* no registration runs before the compilation, the compiler resolves every
\* name of the query: the selection list has one "expression AS name" item
\* for each measure, dimension and time dimension of the query, and the
\* compilation fails only when the query names none.
C26_EveryNameResolved ==
    (Answered /\ ValidateQuery(before, RequestQuery).ok) =>
        /\ RequestedNames = 0 =>
               Observed = [threw |-> TRUE,
                           what |-> "No valid measures or dimensions specified"]
        /\ RequestedNames > 0 =>
               /\ Succeeded
               /\ Occurrences(SelectPart(bind_data.compiled_sql), " AS ")
                      = RequestedNames

\* a measure, a dimension and a time window, validated and compiled
C26_ThreeNamesResolved ==
    /\ Succeeded
    /\ Len(RequestQuery.measures) = 1
    /\ Len(RequestQuery.dimensions) = 1
    /\ Len(RequestQuery.time_dimensions) = 1
    /\ SelectPart(bind_data.compiled_sql) =
           "SUM(order_amount) AS total_revenue, customer_id AS customer_id, "
           \o "DATE_TRUNC('month', order_date) AS order_date"

-----------------------------------------------------------------------------
\* C27: in every state of the sequential statements the measures map and the
\* dimensions map of the registry have the same dataset names: GetMeasures
\* of a name is null exactly when GetDimensions of it is, and a dataset
\* registered with no measures exists for the validation and the compiler.
C27_SameDatasetNames ==
    /\ DOMAIN dataset_measures_ = DOMAIN dataset_dimensions_
    /\ \A n \in DatasetNames :
           /\ GetMeasures(GetInstance, n).null <=> GetDimensions(GetInstance, n).null
           /\ (n \in DOMAIN registered /\ ListOf(registered[n].j, "measures") = <<>>) =>
                  /\ ~GetMeasures(GetInstance, n).null
                  /\ GetMeasures(GetInstance, n).value = <<>>
                  /\ ValidateQuery(GetInstance, ProbeQuery(n, <<>>, <<>>)).ok
                  /\ OutcomeOn(GetInstance, ProbeQuery(n, <<>>, <<>>)).what
                         = "No valid measures or dimensions specified"

\* a dataset registered with no measures has been asked for a measure
C27_EmptyMeasuresExist ==
    /\ Answered
    /\ RequestQuery.dataset \in DOMAIN registered
    /\ dataset_measures_[RequestQuery.dataset] = <<>>
    /\ RequestQuery.dataset \in DOMAIN dataset_dimensions_
    /\ RequestQuery.measures # <<>>
    /\ StartsWith(last_error, ValidationFailed \o "Measure '")

-----------------------------------------------------------------------------
\* the document of the statement is not JSON, or has a value that is not a
\* string where the parser takes a string
RejectedDocument ==
    \/ ~request[2].value.valid
    \/ Has(request[2].value, "not_string")

\* C28: a REGISTER_DATASET statement whose document is rejected, as invalid
\* JSON or for a measure or dimension entry the parser rejects, fails with
\* 'Failed to register dataset' and leaves both maps of the registry as they
\* were, the entry of its name included; a document that is not rejected is
\* registered.
C28_RejectedDocumentLeavesRegistry ==
    statement = "register" =>
        IF RejectedDocument
        THEN /\ register_result = ""
             /\ StartsWith(last_error, "Failed to register dataset")
             /\ dataset_measures_ = before.dataset_measures_
             /\ dataset_dimensions_ = before.dataset_dimensions_
             /\ Entry(dataset_measures_, RegisteredName)
                    = Entry(before.dataset_measures_, RegisteredName)
        ELSE /\ Registered
             /\ last_error = ""

\* a document rejected at its second dimension, after its measures and its
\* first dimension were parsed, for a name that has another definition
C28_RejectedAfterMeasures ==
    /\ statement = "register"
    /\ request[2].value = MistypedDocument
    /\ RegisteredName \in DOMAIN registered
    /\ registered[RegisteredName] = RevisedDocument
    /\ dataset_measures_[RegisteredName] = ParseMeasures(RevisedDocument.j)
    /\ last_error = "Failed to register dataset: type must be string, but is number"

\* a document that is not JSON, for a name that is not registered
C28_InvalidJsonForNewName ==
    /\ statement = "register"
    /\ request[2].value = InvalidText
    /\ RegisteredName \notin DOMAIN dataset_measures_
    /\ last_error = "Failed to register dataset: parse error"

-----------------------------------------------------------------------------
\* C29: a query with measures and with no dimensions and no time windows
\* compiles to a text with no GROUP BY clause at all, not even an empty one.
C29_NoGroupByForMeasuresAlone ==
    (/\ Succeeded
     /\ RequestQuery.measures # <<>>
     /\ RequestQuery.dimensions = <<>>
     /\ RequestQuery.time_dimensions = <<>>) =>
        /\ ~Contains(bind_data.compiled_sql, "GROUP BY")
        /\ bind_data.compiled_sql =
               SelectFrom \o WhereClause(RequestQuery) \o OrderByClause(RequestQuery)
               \o LimitClause(RequestQuery)

\* the query of test 15, a measure and a filter, compiled
C29_Test15Compiled ==
    /\ Succeeded
    /\ RequestQuery.measures = <<"total_revenue">>
    /\ RequestQuery.dimensions = <<>>
    /\ RequestQuery.time_dimensions = <<>>
    /\ bind_data.compiled_sql =
           "SELECT SUM(order_amount) AS total_revenue FROM orders_ds "
           \o "WHERE customer_id != '999'"

-----------------------------------------------------------------------------
\* the clauses the claims give the request, each empty when it has no content
ClaimedWhere ==
    LET predicates == ClaimedFilterPredicates(RequestQuery)
                      \o ClaimedRangePredicates(RequestQuery)
    IN  IF predicates = <<>> THEN "" ELSE " WHERE " \o Join(predicates, " AND ")

ClaimedGroupBy ==
    IF RequestQuery.measures # <<>> /\ ClaimedGroupNames(RequestQuery) # <<>>
    THEN " GROUP BY " \o Join(ClaimedGroupNames(RequestQuery), ", ")
    ELSE ""

ClaimedOrderBy ==
    IF RequestOrder = <<>> THEN ""
    ELSE " ORDER BY "
         \o Join([i \in 1..Len(RequestOrder) |-> ClaimedOrderTerm(RequestOrder[i])], ", ")

ClaimedLimit ==
    IF Has(RequestDocument, "limit") /\ RequestDocument.limit > 0
    THEN " LIMIT " \o ToString(RequestDocument.limit)
    ELSE ""

\* the keyword is in the text once when the clause has content, and never
\* when it has none
OnceOrOmitted(keyword, clause) ==
    Occurrences(bind_data.compiled_sql, keyword) = IF clause = "" THEN 0 ELSE 1

\* C30: every compiled text is SELECT <list> FROM <dataset>, then the WHERE,
\* GROUP BY, ORDER BY and LIMIT clauses in this order; each of the four is in
\* the text at most once, and not at all when it has no content.
C30_ClauseOrder ==
    Succeeded =>
        /\ bind_data.compiled_sql =
               SelectFrom \o ClaimedWhere \o ClaimedGroupBy \o ClaimedOrderBy \o ClaimedLimit
        /\ StartsWith(bind_data.compiled_sql, "SELECT ")
        /\ Occurrences(bind_data.compiled_sql, "SELECT ") = 1
        /\ Occurrences(bind_data.compiled_sql, " FROM " \o RequestQuery.dataset) = 1
        /\ OnceOrOmitted(" WHERE ", ClaimedWhere)
        /\ OnceOrOmitted(" GROUP BY ", ClaimedGroupBy)
        /\ OnceOrOmitted(" ORDER BY ", ClaimedOrderBy)
        /\ OnceOrOmitted(" LIMIT ", ClaimedLimit)

\* the query of test 7, compiled: all four clauses
C30_Test7Compiled ==
    /\ Succeeded
    /\ RequestDocument = ComplexDocument
    /\ bind_data.compiled_sql =
           "SELECT SUM(order_amount) AS total_revenue, COUNT(*) AS order_count, "
           \o "customer_id AS customer_id, DATE_TRUNC('month', order_date) AS order_date "
           \o "FROM orders_ds "
           \o "WHERE customer_id != '999' AND order_date >= '2025-01-01' "
           \o "AND order_date <= '2025-12-31' "
           \o "GROUP BY customer_id, order_date "
           \o "ORDER BY order_date, total_revenue DESC LIMIT 100"

\* a query whose only filter is skipped, compiled: no WHERE clause
C30_NoWhereWhenSkipped ==
    /\ Succeeded
    /\ RequestQuery.filters # <<>>
    /\ ~Contains(bind_data.compiled_sql, "WHERE")

====
